---- MODULE Spec2Model ----
(***************************************************************************)
(* The ingestion pipeline of Myrient-Search (backend/pipeline.js), its     *)
(* admin routes (backend/routes/admin.js) and its cron scheduler            *)
(* (backend/scheduler.js), as one state machine.                            *)
(*                                                                         *)
(* Node.js runs every synchronous stretch of code atomically: an action of *)
(* this module is the completion of one awaited external call (archive     *)
(* fetch, SQL statement, index call, provider call, timer) together with   *)
(* all the code that runs, through promise continuations, until every task *)
(* it wakes is parked on its next await.                                   *)
(***************************************************************************)
EXTENDS Integers, Sequences, FiniteSets, TLC

\* ------------------------------------------------------------------ bounds
MaxRuns == 2            \* accepted runPipeline calls in one behaviour
MaxFaults == 1          \* external calls that fail in one behaviour
CRAWL_CONCURRENCY == 2  \* pipeline.js:46 sets 20; scaled to the archive below
DB_BATCH_SIZE == 2      \* pipeline.js:47 sets 500; scaled
IGDB_BATCH_SIZE == 2    \* pipeline.js:49 sets 10; scaled
IGDB_WORKERS == 2       \* pipeline.js:50 sets 4; scaled

Runs == 1..MaxRuns
Workers == 1..IGDB_WORKERS

NULL == "<null>"        \* SQL NULL / JS null

\* ------------------------------------------------------- character strings
\* Filenames are sequences of one-character strings so that the string
\* tests of the code (endsWith, includes, split) are computed, not assumed.
UpperChars ==
    << "A", "B", "C", "D", "E", "F", "G", "H", "I", "J", "K", "L", "M", "N", "O",
    "P", "Q", "R", "S", "T", "U", "V", "W", "X", "Y", "Z" >>
LowerChars ==
    << "a", "b", "c", "d", "e", "f", "g", "h", "i", "j", "k", "l", "m", "n", "o",
    "p", "q", "r", "s", "t", "u", "v", "w", "x", "y", "z" >>

LowerChar(ch) ==
    IF \E i \in 1..Len(UpperChars) : UpperChars[i] = ch
    THEN LowerChars[CHOOSE i \in 1..Len(UpperChars) : UpperChars[i] = ch]
    ELSE ch

toLowerCase(s) == [i \in 1..Len(s) |-> LowerChar(s[i])]

endsWith(s, suffix) ==
    /\ Len(suffix) <= Len(s)
    /\ SubSeq(s, Len(s) - Len(suffix) + 1, Len(s)) = suffix

includes(s, part) ==
    \E i \in 1..(Len(s) - Len(part) + 1) : SubSeq(s, i, i + Len(part) - 1) = part

IsSpace(ch) == ch = " "

RECURSIVE trimStart(_)
trimStart(s) == IF s # <<>> /\ IsSpace(Head(s)) THEN trimStart(Tail(s)) ELSE s

RECURSIVE trimEnd(_)
trimEnd(s) ==
    IF s # <<>> /\ IsSpace(s[Len(s)]) THEN trimEnd(SubSeq(s, 1, Len(s) - 1)) ELSE s

trim(s) == trimEnd(trimStart(s))

\* ------------------------------------------------------- non-game filter
\* data/nonGameTerms.json is not among the sources; these are the terms the
\* specification lists (section 4.2), lowercased as pipeline.js:24 does.
nonGameTerms ==
    { <<"m", "a", "n", "u", "a", "l">>, <<"u", "p", "d", "a", "t", "e">>,
      <<"b", "i", "o", "s">>, <<"b", "i", "n">>, <<"c", "u", "e">>,
      <<"t", "x", "t">> }

\* The filter with the filename compared as it is written.
isGameCaseSensitive(filename) ==
    IF filename = <<>> THEN FALSE
    ELSE ~ \E term \in nonGameTerms :
              \/ endsWith(filename, <<".">> \o term)
              \/ includes(filename, <<"(">> \o term \o <<")">>)
              \/ includes(filename, <<"[">> \o term \o <<"]">>)
              \/ endsWith(filename, <<" ">> \o term)

isGameForIGDB(filename) ==
    IF filename = <<>> THEN FALSE
    ELSE LET lowerFileName == toLowerCase(filename) IN
         ~ \E term \in nonGameTerms :
              \/ endsWith(lowerFileName, <<".">> \o term)
              \/ includes(lowerFileName, <<"(">> \o term \o <<")">>)
              \/ includes(lowerFileName, <<"[">> \o term \o <<"]">>)
              \/ endsWith(lowerFileName, <<" ">> \o term)

\* ------------------------------------------------------- filename parser
\* path.parse(filename).name: the name without its last extension (a dot
\* in first position starts no extension).
nameNoExt(filename) ==
    LET dots == {i \in 1..Len(filename) : filename[i] = "."} IN
    IF dots = {} THEN filename
    ELSE LET last == CHOOSE i \in dots : \A j \in dots : j <= i IN
         IF last = 1 THEN filename ELSE SubSeq(filename, 1, last - 1)

\* Start of the leftmost match of /\s*\(|\[/ in s, 0 when there is none.
firstTagStart(s) ==
    LET starts == {i \in 1..Len(s) :
                     \/ s[i] = "["
                     \/ \E j \in i..Len(s) :
                          /\ s[j] = "("
                          /\ \A k \in i..(j - 1) : IsSpace(s[k])} IN
    IF starts = {} THEN 0 ELSE CHOOSE i \in starts : \A j \in starts : i <= j

base_name(filename) ==
    LET n == nameNoExt(filename)
        at == firstTagStart(n) IN
    trim(IF at = 0 THEN n ELSE SubSeq(n, 1, at - 1))

\* The region vocabulary (pipeline.js:106-135), all of it.
REGIONS ==
    {
      <<"u", "s", "a">>, <<"j", "a", "p", "a", "n">>,
      <<"e", "u", "r", "o", "p", "e">>, <<"w", "o", "r", "l", "d">>,
      <<"a", "s", "i", "a">>, <<"a", "u", "s", "t", "r", "a", "l", "i", "a">>,
      <<"b", "r", "a", "z", "i", "l">>, <<"c", "a", "n", "a", "d", "a">>,
      <<"c", "h", "i", "n", "a">>, <<"d", "e", "n", "m", "a", "r", "k">>,
      <<"f", "i", "n", "l", "a", "n", "d">>, <<"f", "r", "a", "n", "c", "e">>,
      <<"g", "e", "r", "m", "a", "n", "y">>, <<"g", "r", "e", "e", "c", "e">>,
      <<"h", "o", "n", "g", " ", "k", "o", "n", "g">>,
      <<"i", "s", "r", "a", "e", "l">>, <<"i", "t", "a", "l", "y">>,
      <<"k", "o", "r", "e", "a">>,
      <<"n", "e", "t", "h", "e", "r", "l", "a", "n", "d", "s">>,
      <<"n", "o", "r", "w", "a", "y">>, <<"p", "o", "l", "a", "n", "d">>,
      <<"p", "o", "r", "t", "u", "g", "a", "l">>,
      <<"r", "u", "s", "s", "i", "a">>, <<"s", "p", "a", "i", "n">>,
      <<"s", "w", "e", "d", "e", "n">>, <<"t", "a", "i", "w", "a", "n">>,
      <<"u", "k">>,
      <<"u", "n", "i", "t", "e", "d", " ", "k", "i", "n", "g", "d", "o", "m">> }

\* The matches of /[\[(](.*?)[\])]/g in s from position `from` on, each
\* trimmed: a match starts at the leftmost opening bracket that has a closing
\* bracket of either kind after it and ends at the first such bracket; the
\* next search starts behind it.
RECURSIVE tagsFrom(_, _)
tagsFrom(s, from) ==
    LET opens == {i \in from..Len(s) :
                    /\ s[i] \in {"(", "["}
                    /\ \E j \in (i + 1)..Len(s) : s[j] \in {")", "]"}} IN
    IF opens = {} THEN <<>>
    ELSE LET i == CHOOSE i \in opens : \A k \in opens : i <= k
             closes == {j \in (i + 1)..Len(s) : s[j] \in {")", "]"}}
             j == CHOOSE j \in closes : \A k \in closes : j <= k
         IN <<trim(SubSeq(s, i + 1, j - 1))>> \o tagsFrom(s, j + 1)

tags(filename) == tagsFrom(nameNoExt(filename), 1)

\* tag.split(/[,+]/): the pieces between the separators, empty ones included.
RECURSIVE split(_)
split(tag) ==
    LET seps == {i \in 1..Len(tag) : tag[i] \in {",", "+"}} IN
    IF seps = {} THEN <<tag>>
    ELSE LET i == CHOOSE i \in seps : \A k \in seps : i <= k IN
         <<SubSeq(tag, 1, i - 1)>> \o split(SubSeq(tag, i + 1, Len(tag)))

parts(tag) ==
    [i \in 1..Len(split(tag)) |-> toLowerCase(trim(split(tag)[i]))]

\* parts.filter((p) => REGIONS.has(p)).length / parts.length >= 0.5
isRegionTag(tag) ==
    2 * Cardinality({i \in 1..Len(parts(tag)) : parts(tag)[i] \in REGIONS})
        >= Len(parts(tag))

\* The loop with the test `if (!region)` left out: every region tag is kept.
RECURSIVE regionLastWins(_, _)
regionLastWins(ts, region) ==
    IF ts = <<>> THEN region
    ELSE regionLastWins(Tail(ts), IF isRegionTag(Head(ts)) THEN Head(ts) ELSE region)

\* The loop over the tags: region is assigned while it is still "".
RECURSIVE regionFrom(_, _)
regionFrom(ts, region) ==
    IF ts = <<>> THEN region
    ELSE regionFrom(Tail(ts),
                    IF region = <<>> /\ isRegionTag(Head(ts)) THEN Head(ts)
                    ELSE region)

region(filename) == regionFrom(tags(filename), <<>>)

parseFilename(filename) ==
    [ base_name |-> base_name(filename),
      tags |-> tags(filename),
      region |-> region(filename) ]

\* ------------------------------------------------------------ the archive
\* A fixed archive: the root lists two directories, which list the files.
\* The root links /d1/ twice, and the page of /d1/ links /d2/ as well, so a
\* directory is linked more than once and from more than one page.  A.z and
\* B.z are games, M.BIN is filtered out as a non-game.
MYRIENT_URL == "/"
Dirs == {"/", "/d1/", "/d2/"}

FileA == <<"A", ".", "z">>
FileB == <<"B", ".", "z">>
FileM == <<"M", ".", "B", "I", "N">>
FileD == <<"D", ".", "z">>     \* listed by an earlier state of the archive only

SubDirs(url) ==
    CASE url = "/" -> <<"/d1/", "/d2/", "/d1/">>
      [] url = "/d1/" -> <<"/d2/">>
      [] OTHER -> <<>>

Files(url) ==
    CASE url = "/d1/" -> <<FileA, FileM>>
      [] url = "/d2/" -> <<FileB>>
      [] OTHER -> <<>>

\* The record processUrl builds for the file `filename` listed by `url`.
Game(url, filename) ==
    [ download_url |-> <<url, filename>>,
      filename |-> filename,
      game_name |-> base_name(filename) ]

\* Titles the metadata provider has an entry for.
IGDB_TITLES == { <<"A">> }

\* ------------------------------------------------------ store and index
\* A row of games; description stands for the enrichment columns, game_name
\* for the columns an upsert overwrites.
IsFalsy(v) == v = NULL \/ v = ""     \* JavaScript's !v for a nullable string

\* A plain INSERT: a row is added for every game, conflict or not.
RECURSIVE batchInsert(_, _, _)
batchInsert(games, st, nid) ==
    IF games = <<>> THEN [rows |-> <<>>, store |-> st, nextId |-> nid]
    ELSE LET g == Head(games)
             row == [ id |-> nid, download_url |-> g.download_url,
                      filename |-> g.filename, game_name |-> g.game_name,
                      description |-> NULL ]
             rest == batchInsert(Tail(games), st \cup {row}, nid + 1)
         IN [rest EXCEPT !.rows = <<row>> \o @]

\* ON CONFLICT DO UPDATE that sets every column from the excluded row, the
\* enrichment columns included.
RECURSIVE batchReplace(_, _, _)
batchReplace(games, st, nid) ==
    IF games = <<>> THEN [rows |-> <<>>, store |-> st, nextId |-> nid]
    ELSE LET g == Head(games)
             hit == {r \in st : r.download_url = g.download_url}
             row == [ id |-> IF hit # {} THEN (CHOOSE r \in hit : TRUE).id ELSE nid,
                      download_url |-> g.download_url,
                      filename |-> g.filename, game_name |-> g.game_name,
                      description |-> NULL ]
             rest == batchReplace(Tail(games), (st \ hit) \cup {row},
                                  IF hit # {} THEN nid ELSE nid + 1)
         IN [rest EXCEPT !.rows = <<row>> \o @]

\* INSERT ... ON CONFLICT (download_url) DO UPDATE ... RETURNING, over the
\* table st with the next SERIAL value nid.  An id is only ever compared
\* for equality, so the values a conflicting insert skips are not kept.
RECURSIVE batchUpsert(_, _, _)
batchUpsert(games, st, nid) ==
    IF games = <<>> THEN [rows |-> <<>>, store |-> st, nextId |-> nid]
    ELSE LET g == Head(games)
             hit == {r \in st : r.download_url = g.download_url}
             row == IF hit # {}
                    THEN [(CHOOSE r \in hit : TRUE) EXCEPT !.game_name = g.game_name]
                    ELSE [ id |-> nid, download_url |-> g.download_url,
                           filename |-> g.filename, game_name |-> g.game_name,
                           description |-> NULL ]
             rest == batchUpsert(Tail(games), (st \ hit) \cup {row},
                                 IF hit # {} THEN nid ELSE nid + 1)
         IN [rest EXCEPT !.rows = <<row>> \o @]

\* The document batchIndexGames builds from a row.
toDoc(r) == [r EXCEPT !.description = IF IsFalsy(@) THEN NULL ELSE @]

SeqToSet(s) == {s[i] : i \in 1..Len(s)}

RECURSIVE SelectSeq2(_, _)
SelectSeq2(s, keep) ==
    IF s = <<>> THEN <<>>
    ELSE (IF Head(s) \in keep THEN <<Head(s)>> ELSE <<>>) \o SelectSeq2(Tail(s), keep)

\* ------------------------------------------------------------------ state
VARIABLES
    pipelineState,  \* the exported object of pipeline.js
    run,            \* run[r]: the closures of the r-th accepted runPipeline call
    nrun,           \* accepted runPipeline calls so far
    store,          \* rows of the games table
    index,          \* documents of the search index
    nextId,         \* next value of the SERIAL id
    faults,         \* external calls that have failed so far
    configFile,     \* scheduler.js: the document in scheduler-config.json
    currentTask,    \* scheduler.js: the task start() scheduled last, or NoTask
    cronJobs,       \* node-cron: the scheduled tasks that have not been stopped
    reply           \* the last answer of POST /admin/schedule

vars ==
    <<pipelineState, run, nrun, store, index, nextId, faults,
      configFile, currentTask, cronJobs, reply>>

Threads == Dirs \cup {"main"}

NoThread == [pc |-> "none", chunk |-> <<>>, ids |-> <<>>, docs |-> {}, stale |-> {}]
NoWorker == [pc |-> "none", batch |-> <<>>, hits |-> {}, rows |-> {}]

\* The closures of a call that has not been made, or whose tasks have all
\* ended and been collected.
NoRun ==
    [ runpc |-> "none", mode |-> NULL, enrichQueue |-> <<>>, urlQueue |-> <<>>,
      visited |-> {}, seenUrls |-> {}, gameBuffer |-> <<>>,
      thr |-> [t \in Threads |-> NoThread],
      wk |-> [w \in Workers |-> NoWorker] ]

running(c) == {d \in Dirs : c.thr[d].pc \notin {"none", "done"}}

LiveWorkers(c) == {w \in Workers : c.wk[w].pc \notin {"none", "done"}}

\* Some task of the call is still parked on an await.
HasLiveTask(c) ==
    \/ running(c) # {}
    \/ LiveWorkers(c) # {}
    \/ c.thr["main"].pc \notin {"none", "done", "thrown"}
    \/ c.runpc \notin {"none", "returned"}

\* ----------------------------------------------- runPipeline: the join
\* The join with the cancellation flag ignored: every joined run is "done".
SettleIgnoringCancel(ps, c) ==
    IF /\ c.runpc = "join"
       /\ c.thr["main"].pc = "done"
       /\ LiveWorkers(c) = {}
    THEN [ ps |-> [ps EXCEPT !.status = "done", !.endedAt = TRUE],
           c |-> [c EXCEPT !.runpc = "returned"] ]
    ELSE [ps |-> ps, c |-> c]

\* Promise.all resolves once crawl() and every worker have returned.
Settle(ps, c) ==
    IF /\ c.runpc = "join"
       /\ c.thr["main"].pc = "done"
       /\ LiveWorkers(c) = {}
    THEN [ ps |-> [ps EXCEPT !.status = IF ps.cancelled THEN "idle" ELSE "done",
                             !.endedAt = TRUE],
           c |-> [c EXCEPT !.runpc = "returned"] ]
    ELSE [ps |-> ps, c |-> c]

\* crawl() rejects: Promise.all rejects at once, whatever the workers do.
CrawlThrow(ps, c) ==
    LET d == [c EXCEPT !.thr["main"] = [NoThread EXCEPT !.pc = "thrown"]] IN
    IF c.runpc = "join"
    THEN [ ps |-> [ps EXCEPT !.status = "error", !.endedAt = TRUE],
           c |-> [d EXCEPT !.runpc = "returned"] ]
    ELSE [ps |-> ps, c |-> d]

\* ------------------------------------------------------------- crawl()
CrawlEnd(ps, c) ==
    Settle([ps EXCEPT !.scrapeComplete = TRUE],
           [c EXCEPT !.thr["main"] = [NoThread EXCEPT !.pc = "done"]])

\* The final flush followed by pruning whether or not the run was cancelled.
AfterFlushIgnoringCancel(ps, c) ==
    IF c.mode = "incremental" /\ c.seenUrls # {}
    THEN [ps |-> ps, c |-> [c EXCEPT !.thr["main"] = [NoThread EXCEPT !.pc = "pruneSelect"]]]
    ELSE CrawlEnd(ps, c)

\* After the final flush: prune in incremental mode, else finish.
AfterFlush(ps, c) ==
    IF c.mode = "incremental" /\ c.seenUrls # {} /\ ~ps.cancelled
    THEN [ps |-> ps, c |-> [c EXCEPT !.thr["main"] = [NoThread EXCEPT !.pc = "pruneSelect"]]]
    ELSE CrawlEnd(ps, c)

\* The inner while without the test of `visited`: every queued URL is fetched.
RECURSIVE FillRevisiting(_, _)
FillRevisiting(ps, c) ==
    IF c.urlQueue # <<>> /\ Cardinality(running(c)) < CRAWL_CONCURRENCY
    THEN LET url == Head(c.urlQueue)
             d == [c EXCEPT !.urlQueue = Tail(@)] IN
         FillRevisiting(ps, [d EXCEPT !.visited = @ \cup {url},
                                      !.thr[url] = [NoThread EXCEPT !.pc =
                                          IF ps.cancelled THEN "done" ELSE "fetch"]])
    ELSE c

\* The inner while of the promise pool: start a fetch for every queued URL
\* not yet visited while fewer than CRAWL_CONCURRENCY are in flight.
RECURSIVE Fill(_, _)
Fill(ps, c) ==
    IF c.urlQueue # <<>> /\ Cardinality(running(c)) < CRAWL_CONCURRENCY
    THEN LET url == Head(c.urlQueue)
             d == [c EXCEPT !.urlQueue = Tail(@)] IN
         IF url \in c.visited THEN Fill(ps, d)
         ELSE Fill(ps, [d EXCEPT !.visited = @ \cup {url},
                                 !.thr[url] = [NoThread EXCEPT !.pc =
                                     IF ps.cancelled THEN "done" ELSE "fetch"]])
    ELSE c

RECURSIVE FlushLoop(_, _, _)
RECURSIVE CrawlLoop(_, _)

\* A fetch task returns; the dispatcher, parked on Promise.race, resumes.
TaskEnd(ps, c, t) ==
    LET d == [c EXCEPT !.thr[t] = [NoThread EXCEPT !.pc = "done"]] IN
    IF c.thr["main"].pc = "race" THEN CrawlLoop(ps, d) ELSE [ps |-> ps, c |-> d]

\* flushBuffer without `force`: the final flush leaves a short remainder.
FlushLoopNoForce(ps, c, t) ==
    IF Len(c.gameBuffer) >= DB_BATCH_SIZE
    THEN [ ps |-> ps,
           c |-> [c EXCEPT !.gameBuffer = SubSeq(@, DB_BATCH_SIZE + 1, Len(@)),
                           !.thr[t] = [NoThread EXCEPT !.pc = "upsert",
                                          !.chunk = SubSeq(c.gameBuffer, 1, DB_BATCH_SIZE)]] ]
    ELSE IF t = "main" THEN AfterFlush(ps, c) ELSE TaskEnd(ps, c, t)

\* Head of the while loop of flushBuffer, run by thread t (force for main).
FlushLoop(ps, c, t) ==
    IF Len(c.gameBuffer) >= (IF t = "main" THEN 1 ELSE DB_BATCH_SIZE)
    THEN LET n == IF Len(c.gameBuffer) < DB_BATCH_SIZE
                  THEN Len(c.gameBuffer) ELSE DB_BATCH_SIZE IN
         [ ps |-> ps,
           c |-> [c EXCEPT !.gameBuffer = SubSeq(@, n + 1, Len(@)),
                           !.thr[t] = [NoThread EXCEPT !.pc = "upsert",
                                          !.chunk = SubSeq(c.gameBuffer, 1, n)]] ]
    ELSE IF t = "main" THEN AfterFlush(ps, c) ELSE TaskEnd(ps, c, t)

\* Head of the outer while of crawl(), then the final flush.
CrawlLoop(ps, c) ==
    IF (c.urlQueue # <<>> \/ running(c) # {}) /\ ~ps.cancelled
    THEN LET d == Fill(ps, c) IN
         IF running(d) # {}
         THEN [ps |-> ps, c |-> [d EXCEPT !.thr["main"] = [NoThread EXCEPT !.pc = "race"]]]
         ELSE CrawlLoop(ps, d)
    ELSE FlushLoop(ps, c, "main")

\* ------------------------------------------------------------- helpers
\* An external call returns (ok) or fails; MaxFaults bounds the failures.
Outcome(ok) ==
    /\ ok \/ faults < MaxFaults
    /\ faults' = IF ok THEN faults ELSE faults + 1

Commit(r, res) ==
    /\ pipelineState' = res.ps
    /\ run' = [run EXCEPT ![r] = res.c]

\* ------------------------------------------------------- runPipeline
\* A reset that only marks the state as running again.
resetStateKeepingCounters(mode) ==
    [pipelineState EXCEPT !.status = "running", !.mode = mode, !.startedAt = nrun + 1]

\* startedAt is the time of the call: the number of the accepted call here.
resetState(mode) ==
    [ status |-> "running", mode |-> mode, startedAt |-> nrun + 1, endedAt |-> FALSE,
      scrapeTotal |-> 0, scrapeNew |-> 0, queueSize |-> 0, enriched |-> 0,
      indexed |-> 0, scrapeComplete |-> FALSE, cancelled |-> FALSE ]

\* The guard left out: every call is accepted.
GuardRemoved == FALSE

\* The guard of runPipeline (pipeline.js:506).
AlreadyRunning == pipelineState.status = "running"

\* An accepted call up to its first await: resetState, then initDb and
\* initMeili (warnings only).  Closures of earlier calls that no task refers
\* to any more are collected.
Accept(mode) ==
    /\ nrun < MaxRuns
    /\ nrun' = nrun + 1
    /\ pipelineState' = resetState(mode)
    /\ run' = [r \in Runs |->
                 IF r = nrun + 1
                 THEN [NoRun EXCEPT !.mode = mode,
                                    !.runpc = IF mode = "clean" THEN "wipeIndex"
                                              ELSE "token"]
                 ELSE IF HasLiveTask(run[r]) THEN run[r] ELSE NoRun]

\* runPipeline that resets the state before it looks at the status.
runPipelineResetFirst(mode) ==
    IF AlreadyRunning
    THEN pipelineState' = resetState(mode) /\ UNCHANGED <<run, nrun>>
    ELSE Accept(mode)

\* runPipeline: throw when a run is active, else go on.
runPipeline(mode) ==
    IF AlreadyRunning
    THEN UNCHANGED <<pipelineState, run, nrun>>   \* throws, nothing is touched
    ELSE Accept(mode)

\* mode === "clean": deleteAllDocuments().catch(() => {})
WipeIndex(r, ok) ==
    /\ run[r].runpc = "wipeIndex"
    /\ Outcome(ok)
    /\ index' = IF ok THEN {} ELSE index
    /\ run' = [run EXCEPT ![r].runpc = "wipeStore"]
    /\ UNCHANGED <<pipelineState, nrun, store, nextId, configFile, currentTask, cronJobs, reply>>

\* query("DELETE FROM games").catch(() => {})
WipeStore(r, ok) ==
    /\ run[r].runpc = "wipeStore"
    /\ Outcome(ok)
    /\ store' = IF ok THEN {} ELSE store
    /\ run' = [run EXCEPT ![r].runpc = "token"]
    /\ UNCHANGED <<pipelineState, nrun, index, nextId, configFile, currentTask, cronJobs, reply>>

\* getIGDBToken returns or throws; then the workers (or the resolver that
\* sets scrapeComplete) and crawl() are launched and runPipeline joins them.
Launch(ps, c, token) ==
    CrawlLoop([ps EXCEPT !.scrapeComplete = IF token THEN @ ELSE TRUE],
              [c EXCEPT !.runpc = "join",
                        !.urlQueue = <<MYRIENT_URL>>,
                        !.wk = [w \in Workers |->
                                  IF token THEN [NoWorker EXCEPT !.pc = "loop"]
                                  ELSE NoWorker]])

TokenReturn(r, ok) ==
    /\ run[r].runpc = "token"
    /\ Commit(r, Launch(pipelineState, run[r], ok))
    /\ UNCHANGED <<nrun, store, index, nextId, configFile, currentTask, cronJobs, reply>>

Token(r, ok) == Outcome(ok) /\ TokenReturn(r, ok)

\* The same call where the provider credentials may be missing or refused
\* in any run: a failure is not counted against MaxFaults.
TokenUnmetered(r, ok) == TokenReturn(r, ok) /\ UNCHANGED faults

\* stopPipeline (pipeline.js:566)
stopPipeline ==
    pipelineState' = IF pipelineState.status = "running"
                     THEN [pipelineState EXCEPT !.cancelled = TRUE]
                     ELSE pipelineState

\* ------------------------------------------------------- processUrl
\* The page of url as processUrl reads it: directories not yet visited are
\* queued, every file is counted, remembered in seenUrls and buffered.
Parsed(ps, c, url) ==
    LET games == [i \in 1..Len(Files(url)) |-> Game(url, Files(url)[i])] IN
    [ ps |-> [ps EXCEPT !.scrapeTotal = @ + Len(games)],
      c |-> [c EXCEPT !.urlQueue = @ \o SelectSeq2(SubDirs(url), Dirs \ c.visited),
                      !.seenUrls = @ \cup {games[i].download_url : i \in 1..Len(games)},
                      !.gameBuffer = @ \o games] ]

\* ax.get(url) returns or throws.
FetchReturn(r, url, ok) ==
    /\ run[r].thr[url].pc = "fetch"
    /\ Outcome(ok)
    /\ LET p == Parsed(pipelineState, run[r], url) IN
       Commit(r, IF ok THEN FlushLoop(p.ps, p.c, url)
                 ELSE TaskEnd(pipelineState, run[r], url))
    /\ UNCHANGED <<nrun, store, index, nextId, configFile, currentTask, cronJobs, reply>>

\* ------------------------------------------------------- flushBuffer
\* needs enrichment: (mode === "clean" || !row.description) && isGameForIGDB
NeedsEnrich(mode, row) ==
    (mode = "clean" \/ IsFalsy(row.description)) /\ isGameForIGDB(row.filename)

RECURSIVE toEnrich(_, _)
toEnrich(mode, rows) ==
    IF rows = <<>> THEN <<>>
    ELSE (IF NeedsEnrich(mode, Head(rows))
          THEN <<[id |-> Head(rows).id, game_name |-> Head(rows).game_name]>>
          ELSE <<>>) \o toEnrich(mode, Tail(rows))

RECURSIVE alreadyEnrichedIds(_, _)
alreadyEnrichedIds(mode, rows) ==
    IF rows = <<>> THEN <<>>
    ELSE (IF NeedsEnrich(mode, Head(rows)) THEN <<>> ELSE <<Head(rows).id>>)
         \o alreadyEnrichedIds(mode, Tail(rows))

\* A flush that counts the records of a chunk whose batchUpsert failed.
UpsertReturnCountingDropped(r, t, ok) ==
    /\ run[r].thr[t].pc = "upsert"
    /\ Outcome(ok)
    /\ LET c == run[r]
           up == IF ok THEN batchUpsert(c.thr[t].chunk, store, nextId)
                 ELSE [rows |-> <<>>, store |-> store, nextId |-> nextId]
           push == toEnrich(c.mode, up.rows)
           ids == alreadyEnrichedIds(c.mode, up.rows)
           q == c.enrichQueue \o push
           ps == [pipelineState EXCEPT
                    !.scrapeNew = @ + Len(c.thr[t].chunk),
                    !.queueSize = IF push = <<>> THEN @ ELSE Len(q)]
           d == [c EXCEPT !.enrichQueue = q]
       IN /\ store' = up.store
          /\ nextId' = up.nextId
          /\ Commit(r, IF ids # <<>>
                       THEN [ps |-> ps,
                             c |-> [d EXCEPT !.thr[t] =
                                      [NoThread EXCEPT !.pc = "select", !.ids = ids]]]
                       ELSE FlushLoop(ps, d, t))
    /\ UNCHANGED <<nrun, index, configFile, currentTask, cronJobs, reply>>

\* batchUpsert(chunk) returns its rows, or fails and the chunk is dropped.
UpsertReturn(r, t, ok) ==
    /\ run[r].thr[t].pc = "upsert"
    /\ Outcome(ok)
    /\ LET c == run[r]
           up == IF ok THEN batchUpsert(c.thr[t].chunk, store, nextId)
                 ELSE [rows |-> <<>>, store |-> store, nextId |-> nextId]
           push == toEnrich(c.mode, up.rows)
           ids == alreadyEnrichedIds(c.mode, up.rows)
           q == c.enrichQueue \o push
           ps == [pipelineState EXCEPT
                    !.scrapeNew = @ + Len(up.rows),
                    !.queueSize = IF push = <<>> THEN @ ELSE Len(q)]
           d == [c EXCEPT !.enrichQueue = q]
       IN /\ store' = up.store
          /\ nextId' = up.nextId
          /\ Commit(r, IF ids # <<>>
                       THEN [ps |-> ps,
                             c |-> [d EXCEPT !.thr[t] =
                                      [NoThread EXCEPT !.pc = "select", !.ids = ids]]]
                       ELSE FlushLoop(ps, d, t))
    /\ UNCHANGED <<nrun, index, configFile, currentTask, cronJobs, reply>>

\* SELECT * FROM games WHERE id = ANY(ids), .catch(() => ({rows: []}))
SelectReturn(r, t, ok) ==
    /\ run[r].thr[t].pc = "select"
    /\ Outcome(ok)
    /\ LET c == run[r]
           want == SeqToSet(c.thr[t].ids)
           full == IF ok THEN {row \in store : row.id \in want} ELSE {}
       IN Commit(r, IF full # {}
                    THEN [ps |-> pipelineState,
                          c |-> [c EXCEPT !.thr[t] =
                                   [NoThread EXCEPT !.pc = "add",
                                       !.docs = {toDoc(row) : row \in full}]]]
                    ELSE FlushLoop(pipelineState, c, t))
    /\ UNCHANGED <<nrun, store, index, nextId, configFile, currentTask, cronJobs, reply>>

\* batchIndexGames: addDocuments returns, or fails with a logged warning.
batchIndexGames(ps, idx, docs, ok) ==
    [ ps |-> IF ok THEN [ps EXCEPT !.indexed = @ + Cardinality(docs)] ELSE ps,
      index |-> IF ok THEN {d \in idx : \A x \in docs : x.id # d.id} \cup docs
                ELSE idx ]

AddReturn(r, t, ok) ==
    /\ run[r].thr[t].pc = "add"
    /\ Outcome(ok)
    /\ LET b == batchIndexGames(pipelineState, index, run[r].thr[t].docs, ok) IN
       /\ index' = b.index
       /\ Commit(r, FlushLoop(b.ps, run[r], t))
    /\ UNCHANGED <<nrun, store, nextId, configFile, currentTask, cronJobs, reply>>

\* ------------------------------------------------- incremental pruning
\* SELECT download_url FROM games: not caught, a failure rejects crawl().
PruneSelect(r, ok) ==
    /\ run[r].thr["main"].pc = "pruneSelect"
    /\ Outcome(ok)
    /\ LET c == run[r]
           stale == {row.download_url : row \in store} \ c.seenUrls
       IN Commit(r, IF ~ok THEN CrawlThrow(pipelineState, c)
                    ELSE IF stale # {}
                    THEN [ps |-> pipelineState,
                          c |-> [c EXCEPT !.thr["main"] =
                                   [NoThread EXCEPT !.pc = "pruneDelete", !.stale = stale]]]
                    ELSE CrawlEnd(pipelineState, c))
    /\ UNCHANGED <<nrun, store, index, nextId, configFile, currentTask, cronJobs, reply>>

\* DELETE FROM games WHERE download_url = ANY(stale): not caught either.
PruneDelete(r, ok) ==
    /\ run[r].thr["main"].pc = "pruneDelete"
    /\ Outcome(ok)
    /\ store' = IF ok THEN {row \in store : row.download_url \notin run[r].thr["main"].stale}
                ELSE store
    /\ Commit(r, IF ok THEN CrawlEnd(pipelineState, run[r])
                 ELSE CrawlThrow(pipelineState, run[r]))
    /\ UNCHANGED <<nrun, index, nextId, configFile, currentTask, cronJobs, reply>>

\* ------------------------------------------------------- enrichWorker
\* A worker that leaves as soon as the queue is empty, crawl finished or not.
LeavesOnEmptyQueue(ps, queue) ==
    ps.cancelled \/ queue = <<>>

\* The loop head, reached after every sleep: leave the loop, wait, or pop.
WorkerLeaves(ps, queue) ==
    ps.cancelled \/ (queue = <<>> /\ ps.scrapeComplete)

\* A worker that pops whatever the queue holds, crawl finished or not.
PopsAnyBatch(ps, queue) ==
    /\ ~ps.cancelled
    /\ queue # <<>>

WorkerPops(ps, queue) ==
    /\ ~ps.cancelled
    /\ ps.scrapeComplete \/ Len(queue) >= IGDB_BATCH_SIZE
    /\ queue # <<>>

WorkerExit(r, w) ==
    /\ run[r].wk[w].pc = "loop"
    /\ WorkerLeaves(pipelineState, run[r].enrichQueue)
    /\ Commit(r, Settle(pipelineState, [run[r] EXCEPT !.wk[w] = [NoWorker EXCEPT !.pc = "done"]]))
    /\ UNCHANGED <<nrun, store, index, nextId, faults, configFile, currentTask, cronJobs, reply>>

\* enrichQueue.splice(0, IGDB_BATCH_SIZE), then igdbBatch is called.
WorkerPop(r, w) ==
    /\ run[r].wk[w].pc = "loop"
    /\ WorkerPops(pipelineState, run[r].enrichQueue)
    /\ LET q == run[r].enrichQueue
           n == IF Len(q) < IGDB_BATCH_SIZE THEN Len(q) ELSE IGDB_BATCH_SIZE
           rest == SubSeq(q, n + 1, Len(q))
       IN /\ pipelineState' = [pipelineState EXCEPT !.queueSize = Len(rest)]
          /\ run' = [run EXCEPT ![r].enrichQueue = rest,
                                ![r].wk[w] = [NoWorker EXCEPT !.pc = "lookup",
                                                !.batch = SubSeq(q, 1, n)]]
    /\ UNCHANGED <<nrun, store, index, nextId, faults, configFile, currentTask, cronJobs, reply>>

\* igdbBatch returns the provider's answer, or [] when the request fails;
\* resultMap keeps the items with a result, and every UPDATE is issued.
LookupReturn(r, w, ok) ==
    /\ run[r].wk[w].pc = "lookup"
    /\ Outcome(ok)
    /\ LET b == run[r].wk[w].batch
           resultMap == IF ok THEN {b[i].id : i \in {j \in 1..Len(b) : b[j].game_name \in IGDB_TITLES}}
                        ELSE {}
       IN run' = [run EXCEPT ![r].wk[w].pc = "update", ![r].wk[w].hits = resultMap]
    /\ UNCHANGED <<pipelineState, nrun, store, index, nextId, configFile, currentTask, cronJobs, reply>>

\* upd.description = upd.description || "": the summary on a hit, "" on a miss.
Enriched(row, igdbHit) == [row EXCEPT !.description = IF igdbHit THEN "lore" ELSE ""]

\* A worker that looks at the cancellation flag after its updates and
\* returns without sending the updated rows to the index.
UpdateReturnAbortOnCancel(r, w, ok) ==
    /\ run[r].wk[w].pc = "update"
    /\ Outcome(ok)
    /\ LET k == run[r].wk[w]
           game == Head(k.batch)
           old == IF ok THEN {row \in store : row.id = game.id} ELSE {}
           new == {Enriched(row, game.id \in k.hits) : row \in old}
           rows == k.rows \cup new
           left == Tail(k.batch)
       IN /\ store' = (store \ old) \cup new
          /\ pipelineState' = [pipelineState EXCEPT !.enriched = @ + 1]
          /\ run' = [run EXCEPT ![r].wk[w] =
                       IF left # <<>> THEN [k EXCEPT !.batch = left, !.rows = rows]
                       ELSE IF pipelineState.cancelled
                       THEN [NoWorker EXCEPT !.pc = "loop"]
                       ELSE IF rows # {}
                       THEN [NoWorker EXCEPT !.pc = "index",
                                             !.rows = {toDoc(row) : row \in rows}]
                       ELSE [NoWorker EXCEPT !.pc = "loop"]]
    /\ UNCHANGED <<nrun, index, nextId, configFile, currentTask, cronJobs, reply>>

\* A worker for which one failed UPDATE discards the rows of the whole batch.
UpdateReturnPoisoned(r, w, ok) ==
    /\ run[r].wk[w].pc = "update"
    /\ Outcome(ok)
    /\ LET k == run[r].wk[w]
           game == Head(k.batch)
           old == IF ok THEN {row \in store : row.id = game.id} ELSE {}
           new == {Enriched(row, game.id \in k.hits) : row \in old}
           rows == IF ok THEN k.rows \cup new ELSE {}
           left == Tail(k.batch)
       IN /\ store' = (store \ old) \cup new
          /\ pipelineState' = [pipelineState EXCEPT !.enriched = @ + 1]
          /\ run' = [run EXCEPT ![r].wk[w] =
                       IF left # <<>> THEN [k EXCEPT !.batch = left, !.rows = rows]
                       ELSE IF rows # {}
                       THEN [NoWorker EXCEPT !.pc = "index",
                                             !.rows = {toDoc(row) : row \in rows}]
                       ELSE [NoWorker EXCEPT !.pc = "loop"]]
    /\ UNCHANGED <<nrun, index, nextId, configFile, currentTask, cronJobs, reply>>

\* UPDATE games SET ... WHERE id RETURNING *, .catch(() => ({rows: []})), for
\* the next item of the batch; after the last one the rows that came back
\* are sent to the index in one call.
UpdateReturn(r, w, ok) ==
    /\ run[r].wk[w].pc = "update"
    /\ Outcome(ok)
    /\ LET k == run[r].wk[w]
           game == Head(k.batch)
           old == IF ok THEN {row \in store : row.id = game.id} ELSE {}
           new == {Enriched(row, game.id \in k.hits) : row \in old}
           rows == k.rows \cup new
           left == Tail(k.batch)
       IN /\ store' = (store \ old) \cup new
          /\ pipelineState' = [pipelineState EXCEPT !.enriched = @ + 1]
          /\ run' = [run EXCEPT ![r].wk[w] =
                       IF left # <<>> THEN [k EXCEPT !.batch = left, !.rows = rows]
                       ELSE IF rows # {}
                       THEN [NoWorker EXCEPT !.pc = "index",
                                             !.rows = {toDoc(row) : row \in rows}]
                       ELSE [NoWorker EXCEPT !.pc = "loop"]]
    /\ UNCHANGED <<nrun, index, nextId, configFile, currentTask, cronJobs, reply>>

\* batchIndexGames(updatedRows) returns; sleep(IGDB_WORKER_DELAY); loop.
IndexReturn(r, w, ok) ==
    /\ run[r].wk[w].pc = "index"
    /\ Outcome(ok)
    /\ LET b == batchIndexGames(pipelineState, index, run[r].wk[w].rows, ok) IN
       /\ index' = b.index
       /\ pipelineState' = b.ps
    /\ run' = [run EXCEPT ![r].wk[w] = [NoWorker EXCEPT !.pc = "loop"]]
    /\ UNCHANGED <<nrun, store, nextId, configFile, currentTask, cronJobs, reply>>

\* ------------------------------------------------- admin routes, scheduler
\* POST /admin/pipeline/start: 409 while running; mode is "clean" only when
\* the body says so.
AdminStart(bodyMode) ==
    /\ IF pipelineState.status = "running"
       THEN UNCHANGED <<pipelineState, run, nrun>>          \* 409
       ELSE runPipeline(IF bodyMode = "clean" THEN "clean" ELSE "incremental")
    /\ UNCHANGED <<store, index, nextId, faults, configFile, currentTask, cronJobs, reply>>

\* The stop route with neither its own test of the status nor stopPipeline's.
AdminStopUnguarded ==
    /\ pipelineState' = [pipelineState EXCEPT !.cancelled = TRUE]
    /\ UNCHANGED <<run, nrun, store, index, nextId, faults, configFile, currentTask, cronJobs, reply>>

\* POST /admin/pipeline/stop: 409 unless running.
AdminStop ==
    /\ IF pipelineState.status # "running"
       THEN UNCHANGED pipelineState                         \* 409
       ELSE stopPipeline
    /\ UNCHANGED <<run, nrun, store, index, nextId, faults, configFile, currentTask, cronJobs, reply>>

\* ------------------------------------------------------------- scheduler
\* Values a configuration document can hold.  applyConfig checks neither
\* enabled nor mode; "full" stands for a mode string runPipeline does not know.
Modes == {"clean", "incremental", "full"}
Expressions == {"", "0 3 * * *", "*/5 * * * *", "daily"}

\* cron.validate
validate(expression) == expression \in {"0 3 * * *", "*/5 * * * *"}

DEFAULT_CONFIG == [enabled |-> FALSE, mode |-> "incremental", expression |-> ""]

Configs == [enabled : BOOLEAN, mode : Modes, expression : Expressions]

\* scheduler-config.json is missing or is not JSON.
NoFile == [enabled |-> FALSE, mode |-> NULL, expression |-> NULL]

loadConfig(file) == IF file = NoFile THEN DEFAULT_CONFIG ELSE file

NoTask == [id |-> 0, mode |-> NULL, expression |-> NULL]

\* cron.schedule(cfg.expression, callback): a new task, whose callback has
\* captured cfg.mode.
schedule(cfg, jobs) ==
    [ id |-> CHOOSE n \in 1..(Cardinality(jobs) + 1) :
                /\ \A j \in jobs : j.id # n
                /\ \A m \in 1..(n - 1) : \E j \in jobs : j.id = m,
      mode |-> cfg.mode, expression |-> cfg.expression ]

\* stop(): the current task, if any, is stopped and forgotten.
stop(task, jobs) ==
    IF task # NoTask THEN [task |-> NoTask, jobs |-> jobs \ {task}]
    ELSE [task |-> task, jobs |-> jobs]

\* start() that schedules without stopping the task in place.
startWithoutStop(file, task, jobs) ==
    LET cfg == loadConfig(file) IN
    IF ~cfg.enabled \/ cfg.expression = "" THEN [task |-> task, jobs |-> jobs]
    ELSE IF ~validate(cfg.expression) THEN [task |-> task, jobs |-> jobs]
    ELSE LET job == schedule(cfg, jobs) IN
         [task |-> job, jobs |-> jobs \cup {job}]

\* start(): stop(), then schedule a task if the persisted configuration is
\* enabled and its expression is non-empty and valid.
start(file, task, jobs) ==
    LET s == stop(task, jobs)
        cfg == loadConfig(file) IN
    IF ~cfg.enabled \/ cfg.expression = "" THEN s
    ELSE IF ~validate(cfg.expression) THEN s
    ELSE LET job == schedule(cfg, s.jobs) IN
         [task |-> job, jobs |-> s.jobs \cup {job}]

\* A request body: the keys it has and their values.
Bodies ==
    [ keys : SUBSET {"enabled", "mode", "expression"},
      enabled : BOOLEAN, mode : Modes, expression : Expressions ]

\* { ...DEFAULT_CONFIG, ...config }
merged(config) ==
    [ enabled |-> IF "enabled" \in config.keys THEN config.enabled
                  ELSE DEFAULT_CONFIG.enabled,
      mode |-> IF "mode" \in config.keys THEN config.mode ELSE DEFAULT_CONFIG.mode,
      expression |-> IF "expression" \in config.keys THEN config.expression
                     ELSE DEFAULT_CONFIG.expression ]

\* fs.writeFileSync returns ("ok"), or throws having left the file as it
\* was ("unchanged") or having truncated it ("truncated").
SaveOutcomes == {"ok", "unchanged", "truncated"}

\* applyConfig that persists and restarts first and validates afterwards.
applyConfigSaveFirst(config, saved, file, task, jobs) ==
    IF saved # "ok"
    THEN [ error |-> "EIO", file |-> IF saved = "truncated" THEN NoFile ELSE file,
           task |-> task, jobs |-> jobs ]
    ELSE LET s == start(merged(config), task, jobs) IN
         [ error |-> IF merged(config).expression # ""
                          /\ ~validate(merged(config).expression)
                     THEN "Invalid cron expression" ELSE "none",
           file |-> merged(config), task |-> s.task, jobs |-> s.jobs ]

\* applyConfig(config): what it throws ("none" when it returns) and the
\* file, current task and scheduled tasks it leaves.
applyConfig(config, saved, file, task, jobs) ==
    IF merged(config).expression # "" /\ ~validate(merged(config).expression)
    THEN [error |-> "Invalid cron expression", file |-> file, task |-> task, jobs |-> jobs]
    ELSE IF saved # "ok"
    THEN [ error |-> "EIO", file |-> IF saved = "truncated" THEN NoFile ELSE file,
           task |-> task, jobs |-> jobs ]
    ELSE LET s == start(merged(config), task, jobs) IN
         [error |-> "none", file |-> merged(config), task |-> s.task, jobs |-> s.jobs]

\* POST /admin/schedule: applyConfig(req.body); 400 with the message when it
\* throws.  saveConfig is reached, and may fail, only after validation.
ApplySchedule(config, saved) ==
    LET a == applyConfig(config, saved, configFile, currentTask, cronJobs) IN
    /\ saved # "ok" => a.error = "EIO"
    /\ Outcome(saved = "ok")
    /\ configFile' = a.file
    /\ currentTask' = a.task
    /\ cronJobs' = a.jobs
    /\ reply' = IF a.error = "none" THEN "ok" ELSE a.error
    /\ UNCHANGED <<pipelineState, run, nrun, store, index, nextId>>

\* scheduler.start(), as server.js calls it at boot.
SchedulerStart ==
    LET s == start(configFile, currentTask, cronJobs) IN
    /\ currentTask' = s.task
    /\ cronJobs' = s.jobs
    /\ UNCHANGED <<pipelineState, run, nrun, store, index, nextId, faults, configFile, reply>>

\* scheduler.stop()
SchedulerStop ==
    LET s == stop(currentTask, cronJobs) IN
    /\ currentTask' = s.task
    /\ cronJobs' = s.jobs
    /\ UNCHANGED <<pipelineState, run, nrun, store, index, nextId, faults, configFile, reply>>

\* A scheduled task fires: runPipeline({mode: cfg.mode}); an error is logged.
SchedulerFire ==
    \E job \in cronJobs :
        /\ runPipeline(job.mode)
        /\ UNCHANGED <<store, index, nextId, faults, configFile, currentTask, cronJobs, reply>>

\* ------------------------------------------------------------------ Init
\* What earlier runs have left: a row of a file the archive no longer lists
\* (enriched) and a row of B.z, stored under the name an earlier parser gave
\* it, which the provider had no entry for (description ""), both indexed.
\* The persisted scheduler configuration is enabled with mode incremental,
\* so scheduler.start() scheduled a task at boot.
SeedRows ==
    { [ id |-> 1, download_url |-> <<"/d1/", FileD>>, filename |-> FileD,
        game_name |-> <<"D">>, description |-> "lore" ],
      [ id |-> 2, download_url |-> <<"/d2/", FileB>>, filename |-> FileB,
        game_name |-> <<"B", "2">>, description |-> "" ] }

\* pipelineState and the stores as the process finds them when it starts.
PipelineInit ==
    /\ pipelineState =
         [ status |-> "idle", mode |-> NULL, startedAt |-> 0, endedAt |-> FALSE,
           scrapeTotal |-> 0, scrapeNew |-> 0, queueSize |-> 0, enriched |-> 0,
           indexed |-> 0, scrapeComplete |-> FALSE, cancelled |-> FALSE ]
    /\ run = [r \in Runs |-> NoRun]
    /\ nrun = 0
    /\ store = SeedRows
    /\ index = {toDoc(row) : row \in store}
    /\ nextId = Cardinality(store) + 1
    /\ faults = 0

Init ==
    /\ PipelineInit
    /\ configFile = [enabled |-> TRUE, mode |-> "incremental", expression |-> "0 3 * * *"]
    /\ currentTask = start(configFile, NoTask, {}).task
    /\ cronJobs = start(configFile, NoTask, {}).jobs
    /\ reply = "no request"

\* An awaited call of run r other than the token request returns.
TaskReturn(r, ok) ==
    \/ WipeIndex(r, ok)
    \/ WipeStore(r, ok)
    \/ PruneSelect(r, ok)
    \/ PruneDelete(r, ok)
    \/ \E url \in Dirs : FetchReturn(r, url, ok)
    \/ \E t \in Threads :
         \/ UpsertReturn(r, t, ok)
         \/ SelectReturn(r, t, ok)
         \/ AddReturn(r, t, ok)
    \/ \E w \in Workers :
         \/ LookupReturn(r, w, ok)
         \/ UpdateReturn(r, w, ok)
         \/ IndexReturn(r, w, ok)

\* A sleeping worker wakes up at its loop head.
WorkerStep(r, w) == WorkerExit(r, w) \/ WorkerPop(r, w)

Next ==
    \/ \E bodyMode \in {"clean", "incremental", NULL} : AdminStart(bodyMode)
    \/ AdminStop
    \/ SchedulerFire
    \/ \E r \in Runs, ok \in BOOLEAN : Token(r, ok) \/ TaskReturn(r, ok)
    \/ \E r \in Runs, w \in Workers : WorkerStep(r, w)

Spec == Init /\ [][Next]_vars

\* The scheduler and the requests that start a run or change the schedule:
\* the process boots with any configuration document, or none, and the
\* awaited calls of a run that has been started do not return.
SchedInit ==
    /\ PipelineInit
    /\ configFile \in Configs \cup {NoFile}
    /\ currentTask = start(configFile, NoTask, {}).task
    /\ cronJobs = start(configFile, NoTask, {}).jobs
    /\ reply = "no request"

SchedNext ==
    \/ \E config \in Bodies, saved \in SaveOutcomes : ApplySchedule(config, saved)
    \/ SchedulerStart
    \/ SchedulerStop
    \/ SchedulerFire
    \/ \E bodyMode \in {"clean", "incremental", NULL} : AdminStart(bodyMode)
    \/ AdminStop

SchedSpec == SchedInit /\ [][SchedNext]_vars

\* The pipeline with no stop request, where the token request of any run
\* may fail without counting as one of the MaxFaults failures.
ScrapeOnlyNext ==
    \/ \E bodyMode \in {"clean", "incremental", NULL} : AdminStart(bodyMode)
    \/ SchedulerFire
    \/ \E r \in Runs, ok \in BOOLEAN : TokenUnmetered(r, ok) \/ TaskReturn(r, ok)
    \/ \E r \in Runs, w \in Workers : WorkerStep(r, w)

ScrapeOnlySpec == Init /\ [][ScrapeOnlyNext]_vars

\* ------------------------------------------------- a wider archive
\* The same directories with a file listed by the root page as well, so that
\* the buffer holds a record when the page of a directory is parsed and two
\* fetch tasks can be flushing at the same time.  No stop request is made.
FileR == <<"R", ".", "t", "x", "t">>

WideFiles(url) ==
    CASE url = "/" -> <<FileR>>
      [] url = "/d1/" -> <<FileA, FileM>>
      [] url = "/d2/" -> <<FileB>>

\* The page of url as processUrl reads it from the wider archive.
ParsedWide(ps, c, url) ==
    LET games == [i \in 1..Len(WideFiles(url)) |-> Game(url, WideFiles(url)[i])] IN
    [ ps |-> [ps EXCEPT !.scrapeTotal = @ + Len(games)],
      c |-> [c EXCEPT !.urlQueue = @ \o SelectSeq2(SubDirs(url), Dirs \ c.visited),
                      !.seenUrls = @ \cup {games[i].download_url : i \in 1..Len(games)},
                      !.gameBuffer = @ \o games] ]

\* ax.get(url) returns a page of the wider archive, or throws.
FetchWide(r, url, ok) ==
    /\ run[r].thr[url].pc = "fetch"
    /\ Outcome(ok)
    /\ LET p == ParsedWide(pipelineState, run[r], url) IN
       Commit(r, IF ok THEN FlushLoop(p.ps, p.c, url)
                 ELSE TaskEnd(pipelineState, run[r], url))
    /\ UNCHANGED <<nrun, store, index, nextId, configFile, currentTask, cronJobs, reply>>

WideNext ==
    \/ \E bodyMode \in {"clean", "incremental", NULL} : AdminStart(bodyMode)
    \/ \E r \in Runs, ok \in BOOLEAN :
         \/ Token(r, ok)
         \/ WipeIndex(r, ok)
         \/ WipeStore(r, ok)
         \/ PruneSelect(r, ok)
         \/ PruneDelete(r, ok)
         \/ \E url \in Dirs : FetchWide(r, url, ok)
         \/ \E t \in Threads :
              \/ UpsertReturn(r, t, ok)
              \/ SelectReturn(r, t, ok)
              \/ AddReturn(r, t, ok)
         \/ \E w \in Workers :
              \/ LookupReturn(r, w, ok)
              \/ UpdateReturn(r, w, ok)
              \/ IndexReturn(r, w, ok)
    \/ \E r \in Runs, w \in Workers : WorkerStep(r, w)

WideSpec == Init /\ [][WideNext]_vars

\* ------------------------------------------------- the parser on its own
\* A listing page whose file links carry the names of ParseNames: processUrl
\* parses each name and the flush stores the record.  The names cover one
\* tag and several, region and language tags, separators with and without
\* blanks, padded and empty tags, nested and unpaired brackets, brackets in
\* the extension and a name without brackets.
MaxParsed == 2

ParseNames ==
    {
      <<"A", " ", "(", "U", "S", "A", ")", ".", "z">>,
      <<"A", " ", "(", "U", "S", "A", ",", " ", "E", "u", "r", "o", "p", "e", ")", ".", "z">>,
      <<"A", " ", "(", "E", "n", ",", "F", "r", ",", "D", "e", ")", ".", "z">>,
      <<"A", " ", "(", "E", "n", ",", " ", "U", "S", "A", ")", ".", "z">>,
      <<"A", " ", "(", "E", "n", ")", " ", "(", "U", "S", "A", ")", " ", "(", "J", "a", "p", "a", "n", ")", ".", "z">>,
      <<"A", " ", "[", "U", "S", "A", "+", "E", "n", "+", "F", "r", "]", ".", "z">>,
      <<"A", " ", "(", " ", "U", "S", "A", " ", ")", ".", "z">>,
      <<"A", " ", "(", "b", "(", "U", "S", "A", ")", ".", "z">>,
      <<"A", " ", "(", "U", "S", "A", "]", ".", "z">>,
      <<"A", "[", "b", "]", " ", "(", "c", ")", ".", "z">>,
      <<"A", " ", "(", "b", " ", "[", "c", ".", "z">>,
      <<"A", ".", "(", "U", "S", "A", ")">>,
      <<"A", " ", "(", "H", "o", "n", "g", " ", "K", "o", "n", "g", ")", ".", "z">>,
      <<"A">>,
      <<"A", " ", "(", "J", "a", "p", "a", "n", ")", " ", "[", "U", "S", "A", "]", ".", "z">>,
      <<"A", " ", "(", ")", ".", "z">> }

\* The record processUrl pushes for a file link.
Leaf(url, filename) ==
    LET p == parseFilename(filename) IN
    [ game_name |-> p.base_name, filename |-> filename, region |-> p.region,
      download_url |-> <<url, filename>>, tags |-> p.tags ]

\* An empty store and index, no run started yet.
ParseInit ==
    /\ pipelineState =
         [ status |-> "idle", mode |-> NULL, startedAt |-> 0, endedAt |-> FALSE,
           scrapeTotal |-> 0, scrapeNew |-> 0, queueSize |-> 0, enriched |-> 0,
           indexed |-> 0, scrapeComplete |-> FALSE, cancelled |-> FALSE ]
    /\ run = [r \in Runs |-> NoRun]
    /\ nrun = 0
    /\ store = {}
    /\ index = {}
    /\ nextId = 1
    /\ faults = 0
    /\ configFile = DEFAULT_CONFIG
    /\ currentTask = NoTask
    /\ cronJobs = {}
    /\ reply = "no request"

\* A file link is parsed and its record upserted: a new row, or on a
\* conflict on download_url the row with the parser's columns overwritten.
ParseLeaf(filename) ==
    LET g == Leaf("/d1/", filename)
        hit == {r \in store : r.download_url = g.download_url}
        row == IF hit # {}
               THEN [(CHOOSE r \in hit : TRUE) EXCEPT !.game_name = g.game_name,
                                                      !.region = g.region,
                                                      !.tags = g.tags]
               ELSE [ id |-> nextId, download_url |-> g.download_url,
                      filename |-> g.filename, game_name |-> g.game_name,
                      region |-> g.region, tags |-> g.tags,
                      description |-> NULL ]
    IN /\ Cardinality(store \cup {row}) <= MaxParsed
       /\ store' = (store \ hit) \cup {row}
       /\ nextId' = IF hit # {} THEN nextId ELSE nextId + 1
       /\ UNCHANGED <<pipelineState, run, nrun, index, faults, configFile,
                      currentTask, cronJobs, reply>>

ParseNext == \E filename \in ParseNames : ParseLeaf(filename)

ParseSpec == ParseInit /\ [][ParseNext]_vars

\* ------------------------------------------------------------ observations
\* Calls of runPipeline that have been accepted and have not returned.
ActiveRuns == {r \in Runs : run[r].runpc \notin {"none", "returned"}}

\* The worker pool of the call was launched (the provider token was obtained).
Started(c) == \E w \in Workers : c.wk[w].pc # "none"

\* No task of the call is parked on an await any more.
Quiet(c) == ~HasLiveTask(c)

\* Some task of the call is parked on a call that has not returned yet, or
\* is a worker about to look at the loop condition again.
Pending(c) ==
    \/ c.runpc \in {"wipeIndex", "wipeStore", "token"}
    \/ running(c) # {}
    \/ c.thr["main"].pc \in {"upsert", "select", "add", "pruneSelect", "pruneDelete"}
    \/ \E w \in Workers :
          \/ c.wk[w].pc \in {"lookup", "update", "index"}
          \/ /\ c.wk[w].pc = "loop"
             /\ \/ WorkerLeaves(pipelineState, c.enrichQueue)
                \/ WorkerPops(pipelineState, c.enrichQueue)

StoreUrls == {row.download_url : row \in store}

\* ------------------------------------------------------------------ claims

\* C1: at most one run is active at any time.  Whatever the interleaving of
\* start requests and cron firings, the only call of runPipeline that has
\* not returned is the latest accepted one, it exists exactly while status
\* is "running", and no crawler or worker pool belongs to a call that was
\* never accepted.
C1_SingleActiveRun ==
    /\ Cardinality(ActiveRuns) <= 1
    /\ ActiveRuns \subseteq {nrun}
    /\ ActiveRuns # {} <=> pipelineState.status = "running"
    /\ \A r \in Runs : r > nrun => run[r] = NoRun

\* A run is active with fetch tasks and workers in flight while the cron job
\* is registered, so a firing (and a start request) meets the guard.
C1_Witness ==
    /\ pipelineState.status = "running"
    /\ currentTask # NoTask
    /\ nrun < MaxRuns
    /\ running(run[nrun]) # {}
    /\ LiveWorkers(run[nrun]) # {}

\* C2: if stopPipeline is accepted during a run and every outstanding call
\* returns, runPipeline returns with status "idle": once no task of the
\* cancelled run is waiting for anything any more, status is "idle".
C2_StoppedRunEndsIdle ==
    (pipelineState.cancelled /\ nrun >= 1 /\ ~Pending(run[nrun]))
        => pipelineState.status = "idle"

\* C3: a run during which stopPipeline was accepted ends with status "idle",
\* never "done" and never "error", whichever call fails while it winds down.
C3_CancelledEndsIdle ==
    (pipelineState.cancelled /\ pipelineState.status # "running")
        => pipelineState.status = "idle"

\* C4: when runPipeline returns after a cancellation every task of the run
\* has finished, and from then on, until another run starts, no counter, no
\* store row and no index document changes.
C4_QuietAfterCancel ==
    [][ /\ (pipelineState'.status = "idle" /\ pipelineState'.cancelled)
            => Quiet(run'[nrun'])
        /\ (pipelineState.status = "idle" /\ pipelineState.cancelled
                /\ pipelineState'.status = "idle")
            => (pipelineState' = pipelineState /\ store' = store /\ index' = index)
      ]_vars

\* C5: status changes only from a terminal status to "running" when a new
\* run is accepted, and from "running" to "done" (not cancelled), to "error",
\* or to "idle" (cancelled).
C5_StatusTransitions ==
    [][ pipelineState'.status # pipelineState.status =>
          \/ /\ pipelineState.status \in {"idle", "done", "error"}
             /\ pipelineState'.status = "running"
             /\ nrun' = nrun + 1
          \/ /\ pipelineState.status = "running"
             /\ pipelineState'.status = "done"
             /\ ~pipelineState.cancelled
          \/ /\ pipelineState.status = "running"
             /\ pipelineState'.status = "error"
          \/ /\ pipelineState.status = "running"
             /\ pipelineState'.status = "idle"
             /\ pipelineState.cancelled
      ]_vars

\* A second run has been accepted after the first one ended, and has ended
\* in "error" itself.
C5_Witness == nrun = 2 /\ pipelineState.status = "error"

C7_NoRequeueOfEnriched ==
    [][ \A r \in Runs :
          (run'[r].mode = "incremental"
               /\ Len(run'[r].enrichQueue) > Len(run[r].enrichQueue))
            => \A i \in (Len(run[r].enrichQueue) + 1)..Len(run'[r].enrichQueue) :
                 \A row \in store' :
                    row.id = run'[r].enrichQueue[i].id => row.description = NULL
      ]_vars

\* C8: every document of the index has a row with the same id in the store.
C8_IndexWithinStore == \A d \in index : \E row \in store : row.id = d.id

\* C9: after a clean run has ended "done", the index holds as many documents
\* as the store holds rows.
C9_CleanCountsAgree ==
    (pipelineState.status = "done" /\ pipelineState.mode = "clean")
        => Cardinality(index) = Cardinality(store)

\* C10: after an incremental run has ended "done", the download_urls of the
\* store are exactly the URLs the crawler of that run observed.
C10_StoreEqualsSeen ==
    (pipelineState.status = "done" /\ pipelineState.mode = "incremental")
        => StoreUrls = run[nrun].seenUrls

\* C11 as amended: pruning is entered only by the crawl of an incremental
\* run, at the moment its pool loop and final flush have ended with the
\* cancellation flag not set (no URL queued, no fetch in flight, nothing
\* buffered); rows leave the store only through the wipe of a clean run or
\* through the prune DELETE of an incremental run, which removes no URL that
\* run has seen.  A cancelled, partial crawl therefore never prunes; a stop
\* that arrives while the prune queries are awaited does not withdraw them.
C11_PruneOnlyAfterCompleteCrawl ==
    [][ /\ \A r \in Runs :
             (run'[r].thr["main"].pc = "pruneSelect"
                  /\ run[r].thr["main"].pc # "pruneSelect")
               => /\ run'[r].mode = "incremental"
                  /\ ~pipelineState'.cancelled
                  /\ run'[r].urlQueue = <<>>
                  /\ running(run'[r]) = {}
                  /\ run'[r].gameBuffer = <<>>
        /\ StoreUrls \ StoreUrls' # {}
             => \E r \in Runs :
                  \/ run[r].runpc = "wipeStore" /\ run[r].mode = "clean"
                  \/ /\ run[r].thr["main"].pc = "pruneDelete"
                     /\ run[r].mode = "incremental"
                     /\ (StoreUrls \ StoreUrls') \cap run[r].seenUrls = {}
      ]_vars

\* The crawl of an incremental run has computed a non-empty stale set and
\* its DELETE is in flight.
C11_Witness ==
    \E r \in Runs :
        /\ run[r].mode = "incremental"
        /\ run[r].thr["main"].pc = "pruneDelete"
        /\ run[r].thr["main"].stale # {}

\* C11 as stated: once cancelled has been set no prune DELETE is issued.
C11_NoPruneOnceCancelled ==
    [][ \A r \in Runs :
          (run'[r].thr["main"].pc = "pruneDelete"
               /\ run[r].thr["main"].pc # "pruneDelete")
            => ~pipelineState'.cancelled
      ]_vars

\* Threads of any run whose batchUpsert call is in flight.
PendingUpserts == {x \in Runs \X Threads : run[x[1]].thr[x[2]].pc = "upsert"}

\* C12: upsert idempotence.  download_url and id are unique in the store,
\* no step changes the id of a download_url that stays in the store, and
\* for every batchUpsert call in flight, applying the same chunk a second
\* time returns the same rows with the same ids and leaves the store as the
\* first application left it.
C12_UpsertIdempotent ==
    [][ /\ \A a, b \in store' :
             (a.download_url = b.download_url \/ a.id = b.id) => a = b
        /\ \A a \in store, b \in store' :
             a.download_url = b.download_url => a.id = b.id
        /\ \A x \in PendingUpserts :
             LET chunk == run[x[1]].thr[x[2]].chunk
                 first == batchUpsert(chunk, store, nextId)
                 second == batchUpsert(chunk, first.store, first.nextId)
             IN /\ second.store = first.store
                /\ second.rows = first.rows
                /\ second.nextId = first.nextId
                /\ {row.download_url : row \in first.store}
                     = StoreUrls \cup {chunk[i].download_url : i \in 1..Len(chunk)}
      ]_vars

\* The second pass: a thread of the second run is about to upsert a chunk
\* whose rows the first run inserted.
C12_Witness ==
    /\ nrun = 2
    /\ \E t \in Threads :
         /\ run[2].thr[t].pc = "upsert"
         /\ \A i \in 1..Len(run[2].thr[t].chunk) :
              \E row \in store :
                 /\ row.download_url = run[2].thr[t].chunk[i].download_url
                 /\ row.id > Cardinality(SeedRows)

\* C13: a batch upsert that hits an existing download_url changes only the
\* parsed columns (game_name) of that row: for every batchUpsert call in
\* flight, each row it hits keeps its id, filename and description, every
\* other row is left as it is; and in no step does a row that stays in the
\* store change its id or filename, or its description unless an enrich
\* worker's UPDATE of that id is returning.
C13_ConflictKeepsEnrichment ==
    [][ /\ \A x \in PendingUpserts :
             LET chunk == run[x[1]].thr[x[2]].chunk
                 urls == {chunk[i].download_url : i \in 1..Len(chunk)}
                 up == batchUpsert(chunk, store, nextId)
             IN \A old \in store :
                  IF old.download_url \in urls
                  THEN \E i \in 1..Len(chunk) :
                          /\ chunk[i].download_url = old.download_url
                          /\ [old EXCEPT !.game_name = chunk[i].game_name] \in up.store
                  ELSE old \in up.store
        /\ \A old \in store, new \in store' :
             old.download_url = new.download_url
               => /\ new.id = old.id
                  /\ new.filename = old.filename
                  /\ new.description # old.description
                       => \E r \in Runs, w \in Workers :
                             /\ run[r].wk[w].pc = "update"
                             /\ Head(run[r].wk[w].batch).id = old.id
      ]_vars

\* A batchUpsert call in flight hits a stored row that has been enriched and
\* whose stored game_name differs from the parsed one.
C13_Witness ==
    \E x \in PendingUpserts :
        \E i \in 1..Len(run[x[1]].thr[x[2]].chunk) : \E old \in store :
            /\ old.download_url = run[x[1]].thr[x[2]].chunk[i].download_url
            /\ old.description # NULL
            /\ old.game_name # run[x[1]].thr[x[2]].chunk[i].game_name

\* Record ids of the batch an enrich worker has popped and not yet finished
\* (its lookup or its UPDATEs are in flight).
BatchIds(k) ==
    IF k.pc \in {"lookup", "update"} THEN {k.batch[i].id : i \in 1..Len(k.batch)}
    ELSE {}

\* C14: batch claims are disjoint: at no time do two enrich workers hold
\* batches that contain the same record id.
C14_DisjointBatches ==
    \A x, y \in Runs \X Workers :
        x # y => BatchIds(run[x[1]].wk[x[2]]) \cap BatchIds(run[y[1]].wk[y[2]]) = {}

\* Enrich workers, of any run, that have been launched and have not returned.
AllLiveWorkers == {x \in Runs \X Workers : x[2] \in LiveWorkers(run[x[1]])}

\* C15: the rate-limit law.  Every worker sleeps IGDB_WORKER_DELAY between
\* two of its own provider requests, so the number of requests in a window
\* is bounded by the number of workers alive in it: the law of 16 requests
\* per 4 seconds is the bound of IGDB_WORKERS workers alive at any time,
\* whatever runs, cancellations and failures came before.
C15_WorkerPoolBound == Cardinality(AllLiveWorkers) <= IGDB_WORKERS

\* The latest run was launched without a provider token: its crawl has been
\* started and it has no enrich worker.
ScrapeOnly ==
    /\ nrun >= 1
    /\ run[nrun].runpc \in {"join", "returned"}
    /\ ~Started(run[nrun])

\* C16: a run whose token acquisition failed proceeds scrape-only: it has no
\* enrich worker and its enriched counter stays 0.
C16_ScrapeOnlyRun ==
    ScrapeOnly => /\ LiveWorkers(run[nrun]) = {}
                  /\ pipelineState.enriched = 0

\* C17: a start request made while a run is active resets nothing.  From a
\* state with status "running" no step - a start request, a cron firing or
\* anything else - accepts a call, changes mode or startedAt, lowers a
\* counter, clears cancelled or scrapeComplete, sets endedAt while the run
\* goes on, or discards the closures of the run; and the scheduled task
\* stays scheduled, so later firings occur.
C17_RejectedStartResetsNothing ==
    [][ pipelineState.status = "running" =>
          /\ nrun' = nrun
          /\ pipelineState'.mode = pipelineState.mode
          /\ pipelineState'.startedAt = pipelineState.startedAt
          /\ pipelineState'.scrapeTotal >= pipelineState.scrapeTotal
          /\ pipelineState'.scrapeNew >= pipelineState.scrapeNew
          /\ pipelineState'.enriched >= pipelineState.enriched
          /\ pipelineState'.indexed >= pipelineState.indexed
          /\ pipelineState.cancelled => pipelineState'.cancelled
          /\ pipelineState.scrapeComplete => pipelineState'.scrapeComplete
          /\ pipelineState'.status = "running"
               => pipelineState'.endedAt = pipelineState.endedAt
          /\ run'[nrun].runpc # "none"
          /\ cronJobs' = cronJobs
          /\ currentTask' = currentTask
      ]_vars

\* A run is active with every counter above 0 and both flags set while a
\* task is scheduled and a further call could still be accepted.
C17_Witness ==
    /\ pipelineState.status = "running"
    /\ nrun < MaxRuns
    /\ cronJobs # {}
    /\ pipelineState.scrapeTotal > 0
    /\ pipelineState.scrapeNew > 0
    /\ pipelineState.enriched > 0
    /\ pipelineState.indexed > 0
    /\ pipelineState.cancelled
    /\ pipelineState.scrapeComplete

\* The configuration is enabled with a non-empty valid expression.
Active(cfg) == cfg.enabled /\ cfg.expression # "" /\ validate(cfg.expression)

\* The only task scheduled for the configuration cfg.
JobOf(cfg) == schedule(cfg, {})

\* C18: applyConfig with an invalid cron expression throws "Invalid cron
\* expression" and mutates nothing: for every body whose merged expression
\* is non-empty and invalid the file, the current task and the scheduled
\* tasks it leaves are the ones it found, and the step after which the
\* route has answered with that error changes no variable but the reply.
C18_InvalidExpressionRejected ==
    /\ [] \A config \in Bodies, saved \in SaveOutcomes :
             (merged(config).expression # "" /\ ~validate(merged(config).expression))
               => LET a == applyConfig(config, saved, configFile, currentTask, cronJobs)
                  IN /\ a.error = "Invalid cron expression"
                     /\ a.file = configFile
                     /\ a.task = currentTask
                     /\ a.jobs = cronJobs
    /\ [][ (reply' = "Invalid cron expression" /\ reply' # reply)
             => UNCHANGED <<pipelineState, run, nrun, store, index, nextId, faults,
                            configFile, currentTask, cronJobs>>
         ]_vars

\* The route has just rejected an invalid expression while the persisted
\* configuration is enabled and its task is scheduled.
C18_Witness ==
    /\ reply = "Invalid cron expression"
    /\ Active(loadConfig(configFile))
    /\ currentTask # NoTask
    /\ cronJobs = {currentTask}

\* C19 as amended: at most one task is scheduled, the one the module holds,
\* and its expression is valid.  start() and a successful applyConfig leave
\* a task scheduled exactly when the persisted configuration is enabled with
\* a non-empty valid expression, and that task has the persisted mode and
\* expression; stop() leaves none and does not touch the configuration; an
\* applyConfig that fails while saving leaves the task as it was.  While a
\* task is scheduled and the document is readable, the two agree.
C19_OneJobAsConfigured ==
    [][ /\ cronJobs' = {currentTask'} \ {NoTask}
        /\ currentTask' # NoTask => validate(currentTask'.expression)
        /\ (currentTask' # NoTask /\ configFile' # NoFile)
             => Active(configFile') /\ currentTask' = JobOf(configFile')
        /\ start(configFile, currentTask, cronJobs).task # NoTask
             <=> Active(loadConfig(configFile))
        /\ stop(currentTask, cronJobs) = [task |-> NoTask, jobs |-> {}]
        /\ (currentTask' # currentTask \/ configFile' # configFile)
             => \/ /\ configFile' = configFile
                   /\ currentTask' = NoTask
                \/ /\ reply' = "ok"
                   /\ configFile' # NoFile
                   /\ currentTask' = IF Active(configFile') THEN JobOf(configFile')
                                     ELSE NoTask
                \/ /\ reply' = "EIO"
                   /\ configFile' = NoFile
                   /\ currentTask' = currentTask
                \/ /\ configFile' = configFile
                   /\ Active(loadConfig(configFile))
                   /\ currentTask' = JobOf(loadConfig(configFile))
      ]_vars

\* A successful applyConfig has replaced the schedule, and the new task has
\* fired and started a clean run.
C19_Witness ==
    /\ reply = "ok"
    /\ currentTask = JobOf([enabled |-> TRUE, mode |-> "clean",
                            expression |-> "*/5 * * * *"])
    /\ cronJobs = {currentTask}
    /\ pipelineState.status = "running"
    /\ pipelineState.mode = "clean"

\* C19 as stated: at most one task is scheduled, one is scheduled exactly
\* when the persisted configuration is enabled with a non-empty valid
\* expression, and it has the persisted mode.
C19_JobIffConfigured ==
    /\ Cardinality(cronJobs) <= 1
    /\ cronJobs # {} <=> Active(loadConfig(configFile))
    /\ \A job \in cronJobs : job.mode = loadConfig(configFile).mode

\* C20: a stop request is accepted only while status is "running".  While
\* no run is active no step sets or clears cancelled; cancelled is set only
\* by a step that finds status "running" and changes nothing else; and a
\* run that starts, starts with cancelled not set.
C20_StopOnlyWhileRunning ==
    [][ /\ (pipelineState.status # "running" /\ pipelineState'.status # "running")
             => pipelineState'.cancelled = pipelineState.cancelled
        /\ (pipelineState.status # "running" /\ pipelineState'.status = "running")
             => ~pipelineState'.cancelled /\ nrun' = nrun + 1
        /\ (~pipelineState.cancelled /\ pipelineState'.cancelled)
             => /\ pipelineState.status = "running"
                /\ pipelineState' = [pipelineState EXCEPT !.cancelled = TRUE]
                /\ UNCHANGED <<run, nrun, store, index, nextId>>
      ]_vars

\* A first run was stopped and has returned, leaving fetches in flight; a
\* second run has started since and proceeds with cancelled not set.
C20_Witness ==
    /\ nrun = 2
    /\ run[1].runpc = "returned"
    /\ run[1].thr["main"].pc = "done"
    /\ running(run[1]) # {}
    /\ pipelineState.status = "running"
    /\ ~pipelineState.cancelled
    /\ pipelineState.scrapeTotal > 0

\* C21: every new run resets the observable fields before any of its tasks
\* runs: the step that makes status "running" leaves every counter 0,
\* scrapeComplete and cancelled false and endedAt null, with no task of the
\* new run started; and in every reachable state status "running" implies
\* endedAt is null, status "done" or "error" implies endedAt is set.
C21_ResetOnStart ==
    /\ [] /\ pipelineState.status = "running" => ~pipelineState.endedAt
          /\ pipelineState.status \in {"done", "error"} => pipelineState.endedAt
    /\ [][ (pipelineState.status # "running" /\ pipelineState'.status = "running")
             => /\ pipelineState' =
                     [ status |-> "running", mode |-> run'[nrun'].mode,
                       startedAt |-> nrun', endedAt |-> FALSE,
                       scrapeTotal |-> 0, scrapeNew |-> 0, queueSize |-> 0,
                       enriched |-> 0, indexed |-> 0,
                       scrapeComplete |-> FALSE, cancelled |-> FALSE ]
                /\ run'[nrun'].runpc \in {"wipeIndex", "token"}
                /\ run'[nrun'].thr = NoRun.thr
                /\ run'[nrun'].wk = NoRun.wk
                /\ run'[nrun'].enrichQueue = <<>>
         ]_vars

\* A second run has just been accepted, after a first run that counted,
\* stored and enriched files and has ended: every field is reset.
C21_Witness ==
    /\ nrun = 2
    /\ run[2].runpc \in {"wipeIndex", "token"}
    /\ pipelineState.status = "running"
    /\ pipelineState.scrapeTotal = 0
    /\ ~pipelineState.endedAt
    /\ \E row \in store : row.id > Cardinality(SeedRows) /\ row.description = "lore"

\* C22: no failure of a store, provider or index call made after the run
\* has started aborts the run: no run ends with status "error".
C22_NoFailureAbortsRun == pipelineState.status # "error"

\* The non-game filter as the specification words it: for some term of the
\* vocabulary the lowercased name ends with ".term" or " term" or contains
\* "(term)" or "[term]".
NonGameName(filename) ==
    \E term \in nonGameTerms :
        LET name == toLowerCase(filename)
            n == Len(name)
            k == Len(term)
            At(i) == i >= 1 /\ i + k - 1 <= n /\ SubSeq(name, i, i + k - 1) = term
        IN \/ At(n - k + 1) /\ n > k /\ name[n - k] \in {".", " "}
           \/ \E i \in 2..(n - k) :
                 /\ At(i)
                 /\ <<name[i - 1], name[i + k]>> \in {<<"(", ")">>, <<"[", "]">>}

\* Names the filter is tried on: the files of the archive, and names with
\* a term as a tag, after a space, as the whole name and in the middle.
FilterNames ==
    { FileA, FileB, FileM, FileD,
      <<"A", " ", "(", "B", "i", "o", "s", ")", ".", "z">>,
      <<"A", "[", "c", "u", "e", "]", ".", "z">>,
      <<"A", " ", "T", "X", "T">>,
      <<"b", "i", "n">>,
      <<"A", ".", "b", "i", "n", ".", "z">>,
      <<"A", "(", "b", "i", "n", ".", "z">>,
      <<"c", "u", "e", " ", "A", ".", "z">> }

NonGameFiles == {f \in FilterNames : NonGameName(f)}

\* The code's filter is the specification's filter, and a row needs
\* enrichment exactly when its name is not a non-game name and the mode is
\* clean or its description is null or empty.
FilterAgrees ==
    \A f \in FilterNames :
        /\ isGameForIGDB(f) <=> f \notin NonGameFiles
        /\ \A mode \in Modes, d \in {NULL, "", "lore"} :
              NeedsEnrich(mode, [filename |-> f, description |-> d])
                <=> (f \notin NonGameFiles /\ (mode = "clean" \/ d \in {NULL, ""}))

\* Ids of the items queued for enrichment or held by a worker, over all runs.
QueuedIds ==
    UNION { {run[r].enrichQueue[i].id : i \in 1..Len(run[r].enrichQueue)}
              \cup UNION {BatchIds(run[r].wk[w]) : w \in Workers} : r \in Runs }

\* C23: a file whose name matches the non-game filter is upserted but never
\* queued for enrichment, in any mode, and its description stays null; every
\* other file is eligible.  The code's filter agrees with the filter as
\* specified; in every reachable state no queued or popped item is the row
\* of a non-game name and every stored row of a non-game name has a null
\* description; and after a run that ended "done" with no failed call the
\* non-game file of the archive is in the store.
C23_NonGamesNeverQueued ==
    /\ FilterAgrees
    /\ \A row \in store :
          row.filename \in NonGameFiles
            => row.id \notin QueuedIds /\ row.description = NULL
    /\ (pipelineState.status = "done" /\ faults = 0)
          => \E row \in store : row.filename = FileM

\* A run has ended "done": the non-game file is stored and indexed with a
\* null description while a game of the same directory has been enriched.
C23_Witness ==
    /\ pipelineState.status = "done"
    /\ \E row \in store : row.filename = FileM /\ row.description = NULL
    /\ \E d \in index : d.filename = FileM
    /\ \E row \in store : row.filename = FileA /\ row.description = "lore"

\* The pieces of a tag as intervals: <<a, b>> with a and b neighbouring
\* boundaries (a separator, the position before the tag or the one after it).
PieceBounds(tag) ==
    LET bs == {0, Len(tag) + 1} \cup {i \in 1..Len(tag) : tag[i] \in {",", "+"}} IN
    {ab \in bs \X bs :
        /\ ab[1] < ab[2]
        /\ ~ \E c \in bs : ab[1] < c /\ c < ab[2]}

\* At least half of the pieces of the tag, trimmed and lowercased, are in
\* the region vocabulary.
HalfRegionPieces(tag) ==
    LET ps == PieceBounds(tag) IN
    2 * Cardinality({ab \in ps :
            toLowerCase(trim(SubSeq(tag, ab[1] + 1, ab[2] - 1))) \in REGIONS})
        >= Cardinality(ps)

\* The same with the pieces lowercased only.
HalfRegionPiecesAsSplit(tag) ==
    LET ps == PieceBounds(tag) IN
    2 * Cardinality({ab \in ps :
            toLowerCase(SubSeq(tag, ab[1] + 1, ab[2] - 1)) \in REGIONS})
        >= Cardinality(ps)

\* C24 (as stated): the region of a stored record is set iff some tag of the
\* record has at least half of its ','/'+'-separated, lowercased pieces in
\* the region vocabulary, and is then the first such tag; otherwise it is "".
C24_RegionIffHalfPieces ==
    \A row \in store :
        LET hits == {k \in 1..Len(row.tags) : HalfRegionPiecesAsSplit(row.tags[k])} IN
        IF hits = {} THEN row.region = <<>>
        ELSE /\ row.region # <<>>
             /\ row.region = row.tags[CHOOSE k \in hits : \A l \in hits : k <= l]

\* C24 (amended): the region of a stored record is set iff some tag of the
\* record has at least half of its ','/'+'-separated pieces, trimmed and
\* lowercased, in the region vocabulary; it is then the first such entry of
\* tags, whatever region tags follow, and otherwise the empty string.
C24_RegionIsFirstRegionTag ==
    \A row \in store :
        LET hits == {k \in 1..Len(row.tags) : HalfRegionPieces(row.tags[k])} IN
        /\ row.tags = tags(row.filename)
        /\ IF hits = {} THEN row.region = <<>>
           ELSE /\ row.region # <<>>
                /\ row.region = row.tags[CHOOSE k \in hits : \A l \in hits : k <= l]

\* A record whose second tag is its region although a third one is a region
\* tag too, next to a record without region.
C24_Witness ==
    /\ \E row \in store :
          /\ Len(row.tags) = 3
          /\ row.region = row.tags[2]
          /\ HalfRegionPieces(row.tags[3])
          /\ ~ HalfRegionPieces(row.tags[1])
    /\ \E row \in store : row.tags # <<>> /\ row.region = <<>>

\* The bracket that closes the opening bracket ch.
Closing(ch) == IF ch = "(" THEN ")" ELSE "]"

\* The substrings of s enclosed by matching pairs, in order: a pair starts
\* at the leftmost opening bracket that has its own closing bracket after it
\* and ends at the first such bracket; the next pair is sought behind it.
RECURSIVE Enclosed(_, _)
Enclosed(s, from) ==
    LET opens == {i \in from..Len(s) :
                    /\ s[i] \in {"(", "["}
                    /\ \E j \in (i + 1)..Len(s) : s[j] = Closing(s[i])} IN
    IF opens = {} THEN <<>>
    ELSE LET i == CHOOSE i \in opens : \A k \in opens : i <= k
             closes == {j \in (i + 1)..Len(s) : s[j] = Closing(s[i])}
             j == CHOOSE j \in closes : \A k \in closes : j <= k
         IN <<SubSeq(s, i + 1, j - 1)>> \o Enclosed(s, j + 1)

\* C25: the tags of a stored record are the substrings enclosed by matching
\* '(...)' / '[...]' pairs of its filename without the extension, in order,
\* and its base name contains neither '(' nor '['.
C25_TagsAreMatchingPairs ==
    \A row \in store :
        /\ row.tags = Enclosed(nameNoExt(row.filename), 1)
        /\ \A i \in 1..Len(row.game_name) : row.game_name[i] \notin {"(", "["}

\* crawl() of the closure has left the promise pool: it is in its final
\* flush, pruning, or has returned.
PastPool(c) ==
    c.thr["main"].pc \in {"upsert", "select", "add", "pruneSelect", "pruneDelete", "done"}

\* C26: once cancelled is set no fetch is started; the final flush of a run
\* begins only when none of its fetch tasks is in flight, and the buffer of
\* parsed records is empty once runPipeline has returned.
C26_FinalFlushAfterTasks ==
    /\ [] \A r \in Runs :
            /\ PastPool(run[r]) => running(run[r]) = {}
            /\ run[r].runpc = "returned" => run[r].gameBuffer = <<>>
    /\ [][ \A r \in Runs, url \in Dirs :
             (pipelineState.cancelled /\ run'[r].thr[url].pc = "fetch")
                 => run[r].thr[url].pc = "fetch" ]_vars

\* The crawler of the closure may still push to its enrichment queue: crawl()
\* has not returned, or one of its fetch tasks has not.
CrawlerActive(c) == c.thr["main"].pc # "done" \/ running(c) # {}

\* C27: while a run is going on and scrapeComplete is true, crawl() of that
\* run has returned (traversal, final flush and pruning are over) and no
\* fetch task of the run is left that could push to the enrichment queue.
C27_ScrapeCompleteMeansCrawlOver ==
    (pipelineState.status = "running" /\ pipelineState.scrapeComplete)
        => ~CrawlerActive(run[nrun])

\* C28: every batch a worker sends to the provider has between 1 and
\* IGDB_BATCH_SIZE items, taken from the head of the queue; a batch of fewer
\* than IGDB_BATCH_SIZE items is popped only with scrapeComplete true; and
\* a worker returns only with cancelled set, or with the queue empty and
\* scrapeComplete true.
C28_BatchSizeAndWorkerExit ==
    /\ [] \A r \in Runs, w \in Workers :
            run[r].wk[w].pc = "lookup"
                => /\ Len(run[r].wk[w].batch) >= 1
                   /\ Len(run[r].wk[w].batch) <= IGDB_BATCH_SIZE
    /\ [][ \A r \in Runs, w \in Workers :
             /\ (run[r].wk[w].pc = "loop" /\ run'[r].wk[w].pc = "lookup")
                   => /\ run[r].enrichQueue = run'[r].wk[w].batch \o run'[r].enrichQueue
                      /\ Len(run'[r].wk[w].batch) < IGDB_BATCH_SIZE
                            => pipelineState.scrapeComplete
             /\ (run[r].wk[w].pc # "done" /\ run'[r].wk[w].pc = "done")
                   => \/ pipelineState.cancelled
                      \/ run[r].enrichQueue = <<>> /\ pipelineState.scrapeComplete
       ]_vars

\* With the crawl complete and no cancellation one worker has sent a batch
\* of fewer than IGDB_BATCH_SIZE items and another has returned.
C28_Witness ==
    /\ ~pipelineState.cancelled
    /\ pipelineState.scrapeComplete
    /\ \E r \in Runs, w, v \in Workers :
          /\ run[r].wk[w].pc = "lookup"
          /\ Len(run[r].wk[w].batch) < IGDB_BATCH_SIZE
          /\ run[r].wk[v].pc = "done"

AllRunning == {x \in Runs \X Dirs : x[2] \in running(run[x[1]])}

\* C30: in every reachable state at most CRAWL_CONCURRENCY crawl fetch tasks
\* are in flight.
C30_FetchPoolBound == Cardinality(AllRunning) <= CRAWL_CONCURRENCY

\* C31: when batchUpsert fails for a flushed chunk the chunk is dropped: the
\* store, the index, the enrichment queue, scrapeNew and queueSize stay as
\* they are and the status does not become "error"; the flush loop goes on
\* with the next chunk if the buffer holds one (one record is enough in the
\* final flush), and otherwise the task ends.
C31_FailedUpsertDropsChunk ==
    [][ \A r \in Runs, t \in Threads :
          (run[r].thr[t].pc = "upsert" /\ faults' = faults + 1
               /\ run'[r].thr[t] # run[r].thr[t])
            => /\ store' = store /\ index' = index /\ nextId' = nextId
               /\ run'[r].enrichQueue = run[r].enrichQueue
               /\ pipelineState'.scrapeNew = pipelineState.scrapeNew
               /\ pipelineState'.queueSize = pipelineState.queueSize
               /\ pipelineState'.indexed = pipelineState.indexed
               /\ pipelineState'.status \in {pipelineState.status, "done", "idle"}
               /\ IF Len(run[r].gameBuffer) >= (IF t = "main" THEN 1 ELSE DB_BATCH_SIZE)
                  THEN /\ run'[r].thr[t].pc = "upsert"
                       /\ run'[r].thr[t].chunk \o run'[r].gameBuffer = run[r].gameBuffer
                  ELSE run'[r].thr[t].pc \in {"done", "pruneSelect"}
      ]_vars

\* A chunk has been dropped (nothing was counted although fewer records are
\* buffered or in the pending chunk than were parsed) and the next chunk is
\* being upserted.
C31_Witness ==
    /\ nrun = 1 /\ faults = 1
    /\ pipelineState.status = "running"
    /\ pipelineState.scrapeNew = 0
    /\ store = SeedRows
    /\ \E t \in Threads :
          /\ run[1].thr[t].pc = "upsert"
          /\ \A u \in Threads \ {t} : run[1].thr[u].pc \notin {"upsert", "fetch"}
          /\ Len(run[1].thr[t].chunk) + Len(run[1].gameBuffer) < pipelineState.scrapeTotal

\* The documents of the rows a worker has collected for its addDocuments call.
Collected(k) ==
    IF k.pc = "index" THEN k.rows
    ELSE IF k.pc = "update" THEN {toDoc(row) : row \in k.rows}
    ELSE {}

\* C32: when the UPDATE of one item of an enrichment batch fails, the store
\* is unchanged, that item adds nothing to the rows collected for the index
\* and the rows of its siblings stay collected; a successful UPDATE adds the
\* updated row; after the last item the collected rows go to the index in
\* one addDocuments call, which on success puts every one of them into the
\* index, and the worker is back at the head of its loop afterwards.
C32_FailedUpdateSkipsOneRecord ==
    [][ \A r \in Runs, w \in Workers :
          LET k == run[r].wk[w]
              kk == run'[r].wk[w] IN
          /\ (k.pc = "update" /\ kk # k)
                => /\ kk.pc \in {"update", "index", "loop"}
                   /\ kk.pc = "update" <=> Len(k.batch) > 1
                   /\ pipelineState'.status = pipelineState.status
                   /\ IF faults' = faults + 1
                      THEN /\ store' = store
                           /\ Collected(kk) = Collected(k)
                      ELSE /\ Collected(k) \subseteq Collected(kk)
                           /\ \A row \in store' :
                                 row.id = Head(k.batch).id => toDoc(row) \in Collected(kk)
          /\ (k.pc = "index" /\ kk # k)
                => /\ kk = [NoWorker EXCEPT !.pc = "loop"]
                   /\ faults' = faults => k.rows \subseteq index'
      ]_vars

\* Of a full batch popped while the crawl was going on, the UPDATE of A.z
\* has failed and the row of B.z alone is on its way to the index.
C32_Witness ==
    /\ nrun = 1 /\ faults = 1
    /\ ~pipelineState.scrapeComplete
    /\ pipelineState.enriched = IGDB_BATCH_SIZE
    /\ \E row \in store :
          /\ row.filename = FileA
          /\ row.description = NULL
          /\ row.id \notin QueuedIds
    /\ \E w \in Workers :
          /\ run[1].wk[w].pc = "index"
          /\ {d.filename : d \in run[1].wk[w].rows} = {FileB}

\* C33: a worker that has popped a batch goes through the provider request,
\* the UPDATE of every item and, if an UPDATE returned a row, the
\* addDocuments call before it is at the head of its loop again, whether or
\* not cancelled is set; it returns only from the head of the loop.  Every
\* row an UPDATE has written is, as written, among the documents of that
\* addDocuments call, which puts them into the index unless it fails.
C33_UpdatedRowsReachIndex ==
    /\ [] \A r \in Runs, w \in Workers :
            LET k == run[r].wk[w] IN
            /\ k.pc = "index" => k.rows # {}
            /\ k.pc \in {"lookup", "update"} => k.batch # <<>>
    /\ [][ \A r \in Runs, w \in Workers :
             LET k == run[r].wk[w]
                 kk == run'[r].wk[w] IN
             kk # k =>
               /\ k.pc = "lookup" => kk.pc = "update" /\ kk.batch = k.batch
               /\ k.pc = "update" =>
                     /\ kk.pc = (IF Len(k.batch) > 1 THEN "update"
                                 ELSE IF Collected(kk) # {} THEN "index" ELSE "loop")
                     /\ Collected(k) \subseteq Collected(kk)
                     /\ \A row \in store' \ store :
                           row.id = Head(k.batch).id /\ toDoc(row) \in Collected(kk)
                     /\ \A d \in Collected(kk) \ Collected(k) :
                           \E row \in store' : row.id = Head(k.batch).id /\ toDoc(row) = d
               /\ k.pc = "index" =>
                     /\ kk.pc = "loop"
                     /\ faults' = faults => k.rows \subseteq index'
               /\ kk.pc = "done" => k.pc = "loop"
       ]_vars

\* With cancelled set a worker has finished the updates of its batch and is
\* about to send the enriched row of A.z to the index.
C33_Witness ==
    /\ pipelineState.cancelled
    /\ pipelineState.status = "running"
    /\ \E w \in Workers :
          /\ run[nrun].wk[w].pc = "index"
          /\ \E d \in run[nrun].wk[w].rows :
                /\ d.filename = FileA
                /\ d.description = "lore"
                /\ \E row \in store : toDoc(row) = d

\* The counters of pipelineState (pipeline.js:71-75).
Counters == {"scrapeTotal", "scrapeNew", "queueSize", "enriched", "indexed"}

\* In this step an addDocuments call, of a flush or of a worker, fails.
AddDocumentsFails ==
    /\ faults' = faults + 1
    /\ \/ \E r \in Runs, t \in Threads :
             run[r].thr[t].pc = "add" /\ run'[r].thr[t] # run[r].thr[t]
       \/ \E r \in Runs, w \in Workers :
             run[r].wk[w].pc = "index" /\ run'[r].wk[w] # run[r].wk[w]

\* What a failed addDocuments call leaves alone: indexed, the store and the
\* index are unchanged, the status does not become "error", and the caller
\* goes on (a worker to its loop head, a flush to its next chunk or its end).
FailedAddIsHarmless ==
    /\ pipelineState'.indexed = pipelineState.indexed
    /\ store' = store /\ index' = index
    /\ pipelineState'.status \in {pipelineState.status, "done", "idle"}
    /\ \A r \in Runs :
          /\ \A w \in Workers :
                (run[r].wk[w].pc = "index" /\ run'[r].wk[w] # run[r].wk[w])
                    => run'[r].wk[w].pc = "loop"
          /\ \A t \in Threads :
                (run[r].thr[t].pc = "add" /\ run'[r].thr[t] # run[r].thr[t])
                    => run'[r].thr[t].pc \in {"upsert", "done", "pruneSelect"}

\* C34: a failed addDocuments call increments a failure counter of the
\* pipeline state, leaves indexed unchanged, undoes no catalog write and
\* aborts neither the worker, the crawler nor the run.
C34_FailedAddCountedAndHarmless ==
    [][ AddDocumentsFails
          => /\ \E f \in Counters \ {"indexed"} : pipelineState'[f] = pipelineState[f] + 1
             /\ FailedAddIsHarmless ]_vars

\* The records of a crawl that are buffered or in a chunk whose batchUpsert
\* has not returned: the buffer followed by the pending chunks.
RECURSIVE PendingChunks(_, _)
PendingChunks(c, ts) ==
    IF ts = {} THEN <<>>
    ELSE LET t == CHOOSE x \in ts : TRUE IN
         (IF c.thr[t].pc = "upsert" THEN c.thr[t].chunk ELSE <<>>)
             \o PendingChunks(c, ts \ {t})

Unflushed(c) == c.gameBuffer \o PendingChunks(c, Threads)

UnflushedUrls(c) == {Unflushed(c)[i].download_url : i \in 1..Len(Unflushed(c))}

\* C35: in a run that is not cancelled every record put into the buffer is
\* handed to batchUpsert exactly once, in a chunk of 1 to DB_BATCH_SIZE
\* records: no record is buffered or pending twice; a record enters the
\* buffer only when its page is parsed and leaves the buffered and pending
\* records only when the batchUpsert call holding it returns (into the
\* store unless the call fails), so it cannot be handed over again; and
\* when the crawl has returned nothing is left buffered or pending.
C35_EachRecordUpsertedOnce ==
    /\ [] \A r \in Runs :
            LET c == run[r] IN
            /\ Cardinality(UnflushedUrls(c)) = Len(Unflushed(c))
            /\ UnflushedUrls(c) \subseteq c.seenUrls
            /\ \A t \in Threads :
                  c.thr[t].pc = "upsert"
                      => Len(c.thr[t].chunk) \in 1..DB_BATCH_SIZE
            /\ c.thr["main"].pc \in {"done", "pruneSelect", "pruneDelete", "thrown"}
                  => Unflushed(c) = <<>>
            /\ (r = nrun /\ faults = 0)
                  => c.seenUrls \ UnflushedUrls(c) \subseteq StoreUrls
    /\ [][ \A r \in Runs :
             run'[r].runpc # "none" =>
               /\ UnflushedUrls(run'[r]) \ UnflushedUrls(run[r])
                     \subseteq run'[r].seenUrls \ run[r].seenUrls
               /\ \A url \in UnflushedUrls(run[r]) \ UnflushedUrls(run'[r]) :
                     /\ \E t \in Threads :
                           /\ run[r].thr[t].pc = "upsert"
                           /\ run'[r].thr[t] # run[r].thr[t]
                           /\ \E i \in 1..Len(run[r].thr[t].chunk) :
                                 run[r].thr[t].chunk[i].download_url = url
                     /\ faults' = faults => url \in StoreUrls'
       ]_vars

\* Two fetch tasks of a run are flushing at the same time, each waiting for
\* its own batchUpsert call.
C35_Witness ==
    /\ nrun >= 1
    /\ ~pipelineState.cancelled
    /\ run[nrun].thr["/d1/"].pc = "upsert"
    /\ run[nrun].thr["/d2/"].pc = "upsert"
    /\ Len(run[nrun].thr["/d1/"].chunk) = DB_BATCH_SIZE
    /\ Len(run[nrun].thr["/d2/"].chunk) = DB_BATCH_SIZE

\* C36: once runPipeline has returned for a run (status done, idle or
\* error), no task of that run acts any more: no step of one of its workers
\* or fetch tasks sends a batch to the provider or changes the store, the
\* index or the pipeline state.
C36_EndedRunActsNoMore ==
    [][ \A r \in Runs :
          (run[r].runpc = "returned" /\ run'[r].runpc = "returned"
               /\ run'[r] # run[r])
            => /\ store' = store /\ index' = index
               /\ pipelineState' = pipelineState
               /\ \A w \in Workers :
                     run'[r].wk[w].pc = "lookup" => run[r].wk[w].pc = "lookup"
      ]_vars

\* The download_urls of the files the archive lists.
ArchiveUrls ==
    UNION { {<<url, Files(url)[i]>> : i \in 1..Len(Files(url))} : url \in Dirs }

\* C37: the prune DELETE of an incremental run removes only rows whose URL
\* the archive no longer lists, also when the fetch of a directory page has
\* failed in that run.
C37_PruneOnlyUnlisted ==
    [][ \A r \in Runs :
          (run[r].thr["main"].pc = "pruneDelete"
               /\ run'[r].thr["main"].pc # "pruneDelete")
            => (StoreUrls \ StoreUrls') \cap ArchiveUrls = {}
      ]_vars

\* The clean run c is still awaiting one of its two wipes.
InWipes(c) == c.mode = "clean" /\ c.runpc \in {"wipeIndex", "wipeStore"}

\* The rows of the store whose file the crawl of c has listed: the only rows
\* the upserts of c write.
WrittenBy(c) == {row \in store : row.download_url \in c.seenUrls}

\* C38: while the latest clean run awaits its wipes no step adds or changes
\* a row or a document, and once a clean run has ended with status done
\* every row of the store is one its crawl has listed and upserted and every
\* document of the index is the document of such a row.
C38_CleanRunOwnsEverything ==
    /\ [](( /\ nrun >= 1
            /\ run[nrun].mode = "clean"
            /\ run[nrun].runpc = "returned"
            /\ pipelineState.status = "done" )
           => /\ store = WrittenBy(run[nrun])
              /\ \A doc \in index :
                    \E row \in WrittenBy(run[nrun]) : row.id = doc.id)
    /\ [][ (nrun >= 1 /\ InWipes(run[nrun]))
             => (store' \subseteq store /\ index' \subseteq index) ]_vars

\* C39: every step that accepts a run while the last schedule request was
\* accepted by applyConfig (so that the task scheduled, if any, comes from
\* that configuration) gives the run the mode clean or incremental, be it
\* a start request or a firing of the scheduled task, and pipelineState.mode
\* is that mode.
C39_ModeIsCleanOrIncremental ==
    [][ (reply = "ok" /\ nrun' = nrun + 1)
          => /\ run'[nrun'].mode \in {"clean", "incremental"}
             /\ pipelineState'.mode = run'[nrun'].mode
      ]_vars

\* C40: in every state between two steps, pipelineState.queueSize is the
\* length of the enrichment queue of the latest run, and it is 0 whenever
\* the status is done.
C40_QueueSizeIsQueueLength ==
    /\ nrun >= 1 => pipelineState.queueSize = Len(run[nrun].enrichQueue)
    /\ pipelineState.status = "done" => pipelineState.queueSize = 0

====
